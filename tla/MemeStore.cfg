SPECIFICATION Spec
CONSTANTS
  Users = {u1, u2}
  plain = plain
  apostrophe = apostrophe
  Rows <- MCRows
  Quoted <- MCQuoted
  Found <- MCFound
  Incomplete = Incomplete
  NoId = NoId
  Word = Word
  QuotedWord = QuotedWord
  MaxMemes = 2
  None = None
SYMMETRY Symmetry
INVARIANTS TypeOK GeneratedMemesKept GoodFormsAccepted  LockHeldInside
 
