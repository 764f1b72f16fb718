\* The shell, one program and a user who types at any time.
CONSTANTS
  Keys = {"A", "BACKSPACE", "TAB", "ENTER", "CAPSLCK"}
  Displays = {"vga", "vesa"}
  Width <- MCWidth
  Height <- MCHeight
  ShellSize = 2
  ChildSizes = {1, 3}
  Text = {"nl"}
  BufferLen = 2
SPECIFICATION Spec
INVARIANTS CursorOnScreen InputShown NoCursorLeftBehind ReadSucceeds
PROPERTY GetsReturns
