SPECIFICATION FigureSpec
CONSTANTS
  Counts = {0, 1000, 999949, 999950, 1000000}
  Digits = {12}
INVARIANT ThousandsEnd
