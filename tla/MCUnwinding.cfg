CONSTANTS
  None = None
  Entry = 101
  Exit = 102
  MaxStack = 16
  Families <- Sound
  Programs <- MCPrograms
SPECIFICATION Spec
INVARIANTS ListsInOrder SaysWhatItMeans ClosuresKeepTheirVariables
