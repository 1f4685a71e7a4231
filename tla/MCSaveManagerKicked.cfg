SPECIFICATION AuthorSpec
CONSTANTS
    s1 = s1
    s2 = s2
    s3 = s3
    k1 = k1
    Session = {s1, s2}
    Key = {k1}
    KeyOf <- OneSave
    None = None
    Main = Main
    Policy = "takeover"
    Faults = {}
    MaxVersion = 2
PROPERTIES
    KickedIntentsRefused
