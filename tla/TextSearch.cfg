CONSTANTS
    zhong = zhong
    wen = wen
    a = a
    mention = mention
    link = link
    bare = bare
    here = here
    mail = mail
    Cjk = {zhong, wen}
    Latin = {a}
    Blank = blank
    Sign = sign
    Open = open
    Close = close
    Mark = mark
    Constructs = {mention, link, bare, here, mail}
    Kind <- MCKind
    Name <- MCName
    Url <- MCUrl
    MaxLen = 4
    MaxText = 4
SPECIFICATION Spec
INVARIANTS  ReadsTheSame 
CHECK_DEADLOCK FALSE
