SPECIFICATION Spec
CONSTANTS
    Versions = {v1}
    NoVersion = NoVersion
    TheModel = TheModel
    Calls = {c1, c2}
    Requests = {r1}
PROPERTIES
    NoReadAfterDeletion
