SPECIFICATION ShellSpec

CONSTANTS
    Ordered <- MCOrdered
    Tabs <- MCTabs
    Items <- MCItems
    Types <- MCTypes
    MaxFormLines = 3
    MaxLedgerRows = 2

INVARIANTS
    ShellTypeOK
    ModalIsOfSelectedItem

PROPERTIES
    SelectionFollows

CHECK_DEADLOCK FALSE
