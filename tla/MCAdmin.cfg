SPECIFICATION Spec
CONSTANTS
  Releases = {"1", "2"}
  Letters = {"I", "M", "Q"}
  Keywords = {"I", "M", "Q"}
  Commands <- MCCommands
  Creations <- MCCreations
  Changes <- MCChanges
  SumModulus = 2
  BinaryUpdate = FALSE
  MaxUsers = 2
  MaxMrs = 2
  MaxComments = 4
INVARIANTS
TypeOK FlagsSurvive EncodingIsMarked ChecksumRight TakenBackIsGone
PROPERTY NothingForgotten
