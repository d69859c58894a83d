\* A rename and a flip of one model.
SPECIFICATION CatalogueSpec
CONSTANTS
    ModelNames = {a, b}
    ModelIds = {1}
    Editors = {c1, c2}
CHECK_DEADLOCK FALSE
PROPERTIES
    FlipsRenameNothing
