SPECIFICATION Spec
CONSTANTS
  RingSize = 3
  LineLen = 2
  KeyLetters = {"a"}
  Keys = {"a", "enter", "backspace", "shift", "ctrl", "caps", "up", "home"}
  Readers <- MCReaders
  Calls = {"read", "raw"}
  MaxWire = 1
  MaxPresses = 3
  Width = 800
  Height = 600
  Deltas <- MCDeltas
  Buttons = {0, 1}
  MaxPackets = 2
  MaxStarts = 2
  NumSlots = 3
  Panels = 0
  TaskSlots = {1, 2}
  MaxMinimized = 1
  MaxStrays = 1
  BufRows = 3
  BufCols = 4
  VisRows = 2
  ViewStep = 3
  GuiHistMax = 2
  GuiLineMax = 4
  GuiPrompt <- MCGuiPrompt
  GuiClear <- MCGuiClear
  GuiLetters = {"a", "b"}
  GuiOutputs <- MCGuiOutputs
  MaxGuiKeys = 6
  Rows = 3
  Cols = 3
  SbLines = 4
  SbStep = 1
  HistSize = 2
  LineMax = 4
  Prompt <- MCPrompt
  Cmds <- MCCmds
  Clear <- MCClear
  Letters = {"a", "b"}
  Outputs <- MCOutputs
  MaxKeys = 5
  Dotted = {"f.t", "g.t"}
  Plain = {"D", "E"}
  Writers = {"u"}
  EditMax = 1
  CopyMax = 2
  MaxLength = 3
  Tokens <- MCTokens
  CdPaths <- MCCdPaths
  MaxCommands = 4
  HeapSize = 10
  Header = 1
  MinSplit = 1
  LeakCap = 2
  Asked = {1, 2, 3}
  Users = {u1}
  Masked = {u1}
  MaxCalls = 7
INVARIANTS InputTrue DesktopSound   HeapSound
PROPERTIES FilesKept
CHECK_DEADLOCK FALSE
