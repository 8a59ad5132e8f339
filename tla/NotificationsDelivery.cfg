SPECIFICATION FairSpec
CONSTANTS
    Handlers = {h1, h2}
    TypeOf <- DiffAndDone
    MaxKept = 1
    MaxAttempts = 2
    Ties = TRUE
    MaxTrouble = 1
INVARIANTS
    TypeOK
    ClientMissesNothing
    NotesBounded
    NewestKept
PROPERTIES
    MailedInSpiteOfWebhook
