SPECIFICATION Spec
CONSTANTS
    p1 = p1
    p2 = p2
    Procs = {p1, p2}
    Models = {a}
    Eligible = {a}
    None = None
    Named = Named
    Unnamed = {u1, u2}
    Links = {"hard"}
    Kinds = {"partial", "lock"}
    May <- AnyOperation
PROPERTY DownloadUndisturbed
