CONSTANTS
  BUFFER_WIDTH = 2
  BUFFER_HEIGHT = 3
  Printable = {"x", "o", "u", "#", "$", " "}
  Keys = {"x", " "}
  MAX_INPUT_LEN = 3
  MAX_HISTORY_ENTRIES = 2
SPECIFICATION Spec
INVARIANTS LastRowShowsLine WholeLineShown BrowsingShowsEntry HistoryIsClean
PROPERTIES DraftComesBack
