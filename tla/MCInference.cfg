SPECIFICATION MCSpec
CONSTANTS
  tok1 = tok1
  tok2 = tok2
  Token = {tok1, tok2}
  Prompts <- MCPrompts
  Invocation = {i1, i2, i3}
  MaxSubmits = 2
  Files <- MCFiles
  Buffers = {191, 192}
  Top = 65535
  MaxDim = 512
  ADMITTED_KEYS = {"k", "l"}
  Expected <- MCExpected
  EXPECTED_TENSOR_COUNT = 2
  EXPECTED_TENSOR_COUNT_PER_TYPE <- MCCount
  EXPECTED_ELEMENTS_PER_TYPE <- MCElements
  PINNED_FILE_SIZE = 192
  Halves <- MCHalves
  Facts <- MCFacts
  Texts <- MCTexts
  Class <- MCClass
  Display <- MCDisplay
  Ascii = {"a", "b", "s", "1", "'", "!", "<", "#"}
  EXPECTED_VOCAB_SIZE = 19
  EXPECTED_MERGES = 6
  MAX_ENCODE_OUTPUT_TOKENS = 7
  MAX_ENCODE_INPUT = 8
  LAYER_COUNT = 2
  HEAD_COUNT = 4
  KV_HEAD_COUNT = 2
  VOCAB_SIZE = 3
  EOG_TOKENS = {0}
  GREEDY_TOKEN_COUNT = 2
  WINDOW_POSITIONS = 1
  TOPK_K = 2
  TOPK_MIN_OVERLAP = 2
  LnOf <- MCLnOf
  BAND_DELTA = 4
  Q2_ATOL = 1
  Q2_RTOL = 1
  TokenPrompts <- MCTokenPrompts
  Traces <- MCTraces
  Logits <- MCLogits
  References <- MCReferences
  Windows <- MCWindows
  MaxTokens = 3
INVARIANTS
  AppliedOnce
  OneOwnerPerPosition
  AnswersAgree
  AdmittedIsWhole
  ReceiptIffWeights
  DequantExact
  EncodingIsBpe
  IncrementalIsBatch
  VerdictsReal
CHECK_DEADLOCK FALSE
