CONSTANTS
    Chars <- MCChars
    Forms <- MCForms
    Folders <- MCFolders
    Logins <- MCLogins
    MaxRows = 2
    MaxPosts = 4
    Texts <- MCTexts
SPECIFICATION MCSpec
INVARIANTS BackupRestores OtherFormatsKeep LoginsArrive ImportedOnce EditKeepsPayload TextReadsBack
CHECK_DEADLOCK FALSE
