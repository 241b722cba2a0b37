SPECIFICATION FairSpec
CONSTANTS
  Irqs = {4, 5, 6}
  Late = FALSE
INVARIANTS IInv OwedIsTracked NeverDeaf
PROPERTIES NoSpuriousTrap HandledUnlessIdle
