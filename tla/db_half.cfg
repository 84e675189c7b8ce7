\* One large tab, evicted in the background and reloaded; nothing fails.
SPECIFICATION BufferSpec
CONSTANTS
    BufferWorlds <- MCReloadedWorlds
INVARIANT ShownWhole
CHECK_DEADLOCK FALSE
