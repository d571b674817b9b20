CONSTANTS
    NumBlocks <- MCNumBlocks
SPECIFICATION Spec
PROPERTY ShutdownOnSignal
\* The process ends when Start returns or a signal kills it, and it idles
\* once every block is indexed while it waits for a signal.
CHECK_DEADLOCK FALSE
