SPECIFICATION Spec
CONSTANTS
    Editor = {e1, e2}
    Content = {a, b}
    Keep = Keep
    NoDoc = NoDoc
    MaxVersion = 2
INVARIANT ReaderSeesOneDocument
