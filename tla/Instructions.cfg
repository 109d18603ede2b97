SPECIFICATION Spec
CONSTANTS
  PageSize = 4
  Pages = 2
INVARIANTS ModesAgree
PROPERTIES SampledOnce ReturnTakesFrame
