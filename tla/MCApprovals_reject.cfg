SPECIFICATION ApprovalSpec
CONSTANTS
    ana = ana
    bo = bo
    sam = sam
    Members = {ana, bo, sam}
    Submitter = sam
    Chain <- TheChain
    Nominees = {ana}
    Handlers = {h1, h2}
    MaxVotes = 4
PROPERTY RejectIsTerminal
CHECK_DEADLOCK FALSE
