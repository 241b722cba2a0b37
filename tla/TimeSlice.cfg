SPECIFICATION Spec
CONSTANTS
  Irqs = {4, 5, 6}
  Late = FALSE
PROPERTIES TimeSlice
