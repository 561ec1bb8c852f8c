CONSTANTS
  Letter = {"a", "b", "B"}
  Upper <- UpperCase
  Space = {" "}
  Punctuation = {"."}
  Lead <- LeadBytes
  Trail = {"T"}
  File <- Files
  MaxLength = {1, 2, 4, 9}
  Batch <- Batches
  None = None
SPECIFICATION Spec
INVARIANTS EncodedAsReference Framed RowsStandAlone
CHECK_DEADLOCK FALSE
