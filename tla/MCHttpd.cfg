CONSTANTS
    t1 = t1
    t2 = t2
    Thread <- TwoThreads
    NULL = NULL
    FirstLine <- Lines
    AuthDir = "auth"
    DenyDir = "deny"
    ImagesDir = "images"
    PagesDir = "pages"
    Tok <- tk
    decongest_httpd_threads = TRUE
    httpd_thread_threshold = 1
    MaxConnections = 3
    MaxLines = 2
    MaxStalled = 1
SPECIFICATION HSpec
INVARIANTS
    ThreadsAccounted
    OwnDirectory
    PlainNames
    FirstTokenUsed
PROPERTY ConnectionsClosed
CHECK_DEADLOCK FALSE
