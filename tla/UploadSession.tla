---------------------------- MODULE UploadSession ----------------------------
(***************************************************************************)
(* The signed URL an import Job uploads to, while a worker watches the Job *)
(* (EnsureImportJob and refreshUploadSecret in                             *)
(* internal/worker/kubernetes_executor.go).  The URL is in a Secret; the   *)
(* Pod reads it from the mounted Secret, which follows with a delay.  The  *)
(* poll loop looks at the remaining time at intervals.                     *)
(***************************************************************************)
EXTENDS Naturals

CONSTANTS
    Threshold, \* a URL with no more time left than this is renewed
    Interval,  \* between two looks at it
    MountDelay,\* until a changed Secret is seen in the Pod
    FirstLifetimes, \* ANI_IMPORT_UPLOAD_TTL_SECONDS: of the URL a Job is created with
    Lifetimes, \* of a renewed URL, for which storage chooses it
    MaxTime    \* bound: the clock

\* What storage and cluster must provide.
ASSUME UploadSessionAssumption ==
    /\ {Threshold, Interval, MountDelay, MaxTime} \subseteq Nat
    /\ Interval > 0
    /\ Threshold >= Interval + MountDelay
    /\ FirstLifetimes \subseteq Nat /\ Lifetimes \subseteq Nat
    /\ \A n \in FirstLifetimes : n > MountDelay
    /\ \A n \in Lifetimes : n > Threshold + MountDelay

VARIABLES
    now,      \* the clock
    watch,    \* whether an attempt of the worker watches the Job
    annotated,\* the Secret tells when its URL expires; older Jobs have none
    signed,   \* until when the URL in the Secret is valid
    mounted,  \* until when the URL the Pod sees is valid
    changed,  \* when the Secret was last written
    nextLook, \* nextRefreshCheck
    upload,   \* what became of the upload
    covered   \* attempts have watched without a gap since the URL was seen to last

uvars == <<now, watch, annotated, signed, mounted, changed, nextLook, upload, covered>>

UploadInit ==
    /\ now = 0
    /\ watch = TRUE
    /\ annotated \in BOOLEAN
    /\ signed \in FirstLifetimes /\ mounted = signed
    /\ changed = 0 /\ nextLook = 0
    /\ upload = "pending" /\ covered = TRUE
-----------------------------------------------------------------------------
\* The loop looks when it is time to, the kubelet updates the mount in time.
TickUpload ==
    /\ now < MaxTime
    /\ watch /\ upload = "pending" => now < nextLook
    /\ signed # mounted => now < changed + MountDelay
    /\ now' = now + 1
    /\ UNCHANGED <<watch, annotated, signed, mounted, changed, nextLook, upload, covered>>
\* Mutant of Look: a URL is renewed when it has expired.
LookLate ==
    /\ watch /\ upload = "pending"
    /\ now >= nextLook
    /\ IF ~annotated \/ signed > now
       THEN /\ covered' = (covered \/ mounted = signed)
            /\ UNCHANGED <<signed, changed>>
       ELSE /\ \E n \in Lifetimes : signed' = now + n
            /\ changed' = now
            /\ UNCHANGED covered
    /\ nextLook' = now + Interval
    /\ UNCHANGED <<now, watch, annotated, mounted, upload>>

\* refreshUploadSecret; an error of any of its calls ends the attempt.
Look ==
    /\ watch /\ upload = "pending"
    /\ now >= nextLook
    /\ IF ~annotated \/ signed > now + Threshold
       THEN /\ covered' = (covered \/ mounted = signed)
            /\ UNCHANGED <<signed, changed, watch>>
       ELSE \/ /\ \E n \in Lifetimes : signed' = now + n
               /\ changed' = now
               /\ UNCHANGED <<watch, covered>>
            \/ /\ watch' = FALSE /\ covered' = FALSE
               /\ UNCHANGED <<signed, changed>>
    /\ nextLook' = now + Interval
    /\ UNCHANGED <<now, annotated, mounted, upload>>

Remount ==
    /\ mounted # signed
    /\ mounted' = signed
    /\ covered' = (covered \/ (watch /\ now < nextLook))
    /\ UNCHANGED <<now, watch, annotated, signed, changed, nextLook, upload>>

\* The Job program reads the URL when it has downloaded and packed everything.
Upload ==
    /\ upload = "pending"
    /\ upload' = IF mounted > now THEN "accepted" ELSE "expired"
    /\ UNCHANGED <<now, watch, annotated, signed, mounted, changed, nextLook, covered>>

\* The lease is lost, the worker stops, or the poll loop returns.
Abandon ==
    /\ watch
    /\ watch' = FALSE /\ covered' = FALSE
    /\ UNCHANGED <<now, annotated, signed, mounted, changed, nextLook, upload>>

\* The next attempt finds the Job and watches it; it looks at once.
Adopt ==
    /\ ~watch /\ upload = "pending"
    /\ watch' = TRUE /\ nextLook' = now
    /\ UNCHANGED <<now, annotated, signed, mounted, changed, upload, covered>>

UploadNext == TickUpload \/ Look \/ Remount \/ Upload \/ Abandon \/ Adopt
UploadSpec == UploadInit /\ [][UploadNext]_uvars
-----------------------------------------------------------------------------
UploadTypeOK ==
    /\ now \in Nat /\ watch \in BOOLEAN /\ annotated \in BOOLEAN /\ covered \in BOOLEAN
    /\ signed \in Nat /\ mounted \in Nat /\ changed \in Nat /\ nextLook \in Nat
    /\ upload \in {"pending", "accepted", "expired"}

\* While attempts watch the Job without a gap the URL in the Pod has not expired,
\* however long the download takes: neither between two looks nor while a renewed
\* URL is on its way into the Pod (kubernetes_executor.go:165-214).  After a gap
\* that holds again as soon as a look has found a URL that lasts, or has renewed
\* it and the Pod sees it.
UrlUsable == covered /\ annotated /\ upload = "pending" => mounted > now

\* The strengthening: until the next look the URL of the Secret outlasts that look
\* and a mount after it, and an old URL that is still mounted outlasts the mount.
UrlOutlasts ==
    annotated /\ upload = "pending" =>
        /\ covered => watch
        /\ watch => now <= nextLook
        /\ covered \/ (watch /\ now < nextLook) => signed > nextLook + MountDelay
        /\ covered /\ mounted # signed =>
               /\ now <= changed + MountDelay
               /\ mounted > changed + MountDelay
               /\ signed > changed + Threshold + MountDelay
UploadInv == UploadTypeOK /\ UrlOutlasts /\ UrlUsable
=============================================================================
