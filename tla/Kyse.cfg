SPECIFICATION KyseSpec
CONSTANTS
    Families <- MCFamilies
    Alphabet <- MCAlphabet
    MaxLines <- MCMaxLines
    Kinds <- MCKinds
    Careful = {"branching", "tags", "values", "sections", "types", "loops", "counting"}
    MaxRounds = 2
    Function = "renderPage"
    Universe = {"nil", "len"}
    Published = {"fmt"}
    Names = {"fmt", "n"}
    Prefixed = {"kyse__w"}
    Imported = {}
INVARIANTS OneMistakeOneError EscapesFitThePage NothingInvented
CHECK_DEADLOCK FALSE
