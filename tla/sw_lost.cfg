SPECIFICATION SettingsSpec
CONSTANTS Keys={"k","l"} Values={"a","p","q"} Default="p" Unset=Unset None=None MaxChanges=4 MaxOutside=0 MaxStarts=1
PROPERTY ExactAtExit
CHECK_DEADLOCK FALSE
