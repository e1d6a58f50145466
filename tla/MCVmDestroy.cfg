SPECIFICATION Spec
CONSTANTS
  Vms = {v1, v2, v3, v4}
  Builders = {v2}
  Outputs = {v2, v3}
  First = v1
  Main = main
  None = None
PROPERTY Destroys
CHECK_DEADLOCK FALSE
