CONSTANTS
    cla = cla
    header = header
    bugfix = bugfix
    other = other
    Cla <- cla
    Header <- header
    Categories <- MCCategories
    Label <- MCLabel
    MaxLines = 4

SPECIFICATION Spec

INVARIANT TypeOK

PROPERTY ParseRefinesSpec
