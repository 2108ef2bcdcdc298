\* Calls between two machines; the console with two printing cores and the
\* keyboard; every machine with three PCI functions and four places for drives;
\* reads of one and of several pieces, the boot's pair of equal ones included.
\* A call whose packet is lost waits for ever, and a boot ends.
INIT ServicesInit
NEXT ServicesNext
CONSTANTS
    A = A
    B = B
    Machines = {A, B}
    Arguments <- SentArguments
    Names <- TagNames
    Tails <- OldTails
    MaxCalls = 2
    core0 = core0
    core1 = core1
    key = key
    Printers = {core0, core1}
    Interrupted = core0
    Keyboard = key
    X = 2
    Y = 1
    Rows = 2
    Struct = 1
    MaxTexts = 3
    Texts <- PrintedTexts
    Slots = 3
    Functions <- Plugged
    Drives = {"none", "ata", "atapi"}
    e1000_models <- Models
    DmaModels = {"0x1230", "0x7010", "0x7111"}
    Unit = 1
    Pieces = 4
    Room = 1
    UserRooms = {1, 9}
    Heap = 30
    Sector = 8
    Reads <- TwoReads
INVARIANTS AnswerRight ReplyContained OverrunHarmless ScreenCurrent DevicesReady
           BlocksDelivered
SYMMETRY BothWays
CHECK_DEADLOCK FALSE
