----------------------------- MODULE MCAdmission -----------------------------
(***************************************************************************)
(* Small instances of Admission: a name, a key or a checksum used again    *)
(* with the same and with another payload, uploads whose object fits and   *)
(* one whose object does not.                                              *)
(***************************************************************************)
EXTENDS Admission

CONSTANTS k1, k2, n1, n2, d1, d2, p1, p2, p3

MCStored == [p \in Paths |-> IF p = p2 THEN d2 ELSE d1]

VersionRequest(key, sum, path) ==
    [op |-> "version", key |-> key, name |-> NoRow, sum |-> sum, path |-> path]
NamedRequest(op, key, name) ==
    [op |-> op, key |-> key, name |-> name, sum |-> NoRow, path |-> NoPath]

MCRequests ==
    {VersionRequest(k1, d1, p) : p \in Paths}
    \cup {VersionRequest(k1, d2, p2), VersionRequest(NoKey, d1, NoPath)}
    \cup {NamedRequest("model", k1, n1)}
    \cup {NamedRequest("task", k1, n) : n \in {n1, n2}}
    \cup {NamedRequest("bundle", k, n1) : k \in {k1, k2}}
=============================================================================
