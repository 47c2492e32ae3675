\* Two extensions, creates that fail or are cut off, any layout of the project.
CONSTANTS
    Ext = {"TODO", "todo_list", "to do"}
    Cap = {"add", "list_add"}
    Raw <- RawOf
    Snake <- SnakeOf
    Pascal <- PascalOf
    Capital <- Words
    Allowed = {"TODO", "todo_list", "add", "list_add"}
    MaxCreates = 3
SPECIFICATION ScaffoldSpec
INVARIANT
    DoneIsComplete
PROPERTY
    DoneIsClean
CHECK_DEADLOCK FALSE
