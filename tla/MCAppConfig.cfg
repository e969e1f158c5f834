CONSTANTS
  Args <- MCArgs
  Numbers <- MCNumbers
SPECIFICATION Spec
\* The program ends after start-up: help, a refused command line, a crash
\* or an invalid configuration exits, and "running" hands over to the tests.
CHECK_DEADLOCK FALSE
INVARIANT AcceptedConfigValid
INVARIANT OptionsHonoured
