SPECIFICATION Spec
CONSTANT Buttons <- FourButtons
PROPERTY OnePulsePerPress
