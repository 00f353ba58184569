-------------------------- MODULE MCSimulatorCalls --------------------------
\* The instances of MCSimulator, with the breakpoint table behind calls.
EXTENDS SimulatorCalls, MCSimulator
=============================================================================
