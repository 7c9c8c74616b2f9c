\* Option handling: every input combination within the bounds, setuid or not,
\* strdup() allowed to fail.
CONSTANTS
    Null = Null
    Default = Default
    NoValue = NoValue
    Args <- MCArgs
    CfgNames <- MCCfgNames
    CmdNames <- MCCmdNames
    MaxCfg = 1
    MaxCmd = 2
    AllocFailures = {FALSE, TRUE}
SPECIFICATION Spec
\* set_options() returns: the process stops there.
CHECK_DEADLOCK FALSE
INVARIANT TypeOK
INVARIANT OptionsMatchReference
INVARIANT ErrorIffInvalid
