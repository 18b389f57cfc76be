CONSTANTS
    PAGE = 4
    TABLE = 4
    HEAP = 8
    QDATA = 3
    END = 8
    BLOCK = 4
    RAMDISK = "initrd"
    SHELL = "lisp"
    NULL = NULL
    Machines = {32, 46, 48, 52, 56, 64, 128}
    ModuleLists <- MCModules
    Archives <- MCArchives
    MaxDepth = 3
SPECIFICATION Spec
INVARIANTS HeapBacked FilesFound RelocatedOnce
CHECK_DEADLOCK FALSE
