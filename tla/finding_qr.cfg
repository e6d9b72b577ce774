CONSTANTS
    Chars <- MCChars
    Forms = {}
    Folders = {}
    Logins = {}
    MaxRows = 0
    MaxPosts = 0
    Texts <- MCTexts
SPECIFICATION MCSpec
CHECK_DEADLOCK FALSE
INVARIANT BlocksAreCodewords
