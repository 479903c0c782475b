SPECIFICATION Spec
CONSTANT None = None
INVARIANTS
    PanelsTrue
    
    RecordsHold
    
    PromptsHold
