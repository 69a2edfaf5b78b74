CONSTANTS
  Letters <- TwoLetters
  Commits <- TwoCommits
  Edits <- SomeEdits
  NoText = NoText
  MaxEvents = 2
SPECIFICATION Spec
INVARIANTS TypeOK UnsentIsLetter EnteredStays
