------------------------- MODULE MCCreateInstance -------------------------
(***************************************************************************)
(* Provider specs for small instances of CreateInstance: one that is well  *)
(* served, and variations of one aspect of it with what that aspect meets. *)
(***************************************************************************)
EXTENDS CreateInstance

CONSTANTS mine, yours, theirs, owned, key, other, good, bad

GoodTags == TagKeys \X {good}

NoTags == [k \in {} |-> good]

Plain ==
    [valid |-> TRUE, project |-> TRUE, credentials |-> TRUE, userData |-> TRUE,
     preemptible |-> FALSE, model |-> "", restart |-> "", shielded |-> Unset,
     confidential |-> "", family |-> "other", gpus |-> 0, gpuCount |-> 0,
     gpuSupported |-> TRUE, image |-> "name", labels |-> {mine}, diskLabels |-> {},
     tags |-> NoTags]

Served ==
    [labels |-> {theirs}, tags |-> NoTags, credentials |-> "ok", userData |-> "ok",
     image |-> "uefi", typesAllowed |-> TRUE, typeListed |-> TRUE, attached |-> 1,
     accelerator |-> TRUE, metered |-> TRUE, usage |-> 0, limit |-> 2]

Secrets ==
    {[Plain EXCEPT !.credentials = c, !.userData = u, !.valid = v] :
        c, u, v \in BOOLEAN}
        \X {[Served EXCEPT !.credentials = c, !.userData = u] :
              c \in {"ok", "missing", "noField", "garbage"},
              u \in {"ok", "missing", "noField"}}

Scheduling ==
    {[Plain EXCEPT !.preemptible = p, !.model = m, !.restart = r] :
        p \in BOOLEAN, m \in {"", "Spot"}, r \in {"", "Always", "Never", "other"}}
        \X {Served}

Images ==
    {[Plain EXCEPT !.shielded = s, !.image = i, !.project = p] :
        s \in {Unset, Disabled, [Unset EXCEPT !.secureBoot = "Enabled"]},
        i \in {"noBootDisk", "empty", "name", "path", "family", "malformed"},
        p \in BOOLEAN}
        \X {[Served EXCEPT !.image = i] : i \in {"uefi", "legacy", "missing"}}

Labels ==
    {[Plain EXCEPT !.labels = l, !.diskLabels = d] :
        l \in SUBSET LabelKeys, d \in {{}, {mine}, {mine, yours}, {owned, yours, theirs}}}
        \X {[Served EXCEPT !.labels = l] : l \in {{}, {theirs}, {mine, theirs}, {owned}}}

Tags ==
    {[Plain EXCEPT !.tags = t] : t \in Some(TagKeys, TagValues)}
        \X {[Served EXCEPT !.tags = t] : t \in Some(TagKeys, TagValues)}

Confidential ==
    {[Plain EXCEPT !.confidential = c] :
        c \in {"", "Disabled", "Enabled", "SEV", "SEV_SNP", "TDX", "other"}}
        \X {Served}

Accelerators ==
    {[Plain EXCEPT !.family = f, !.gpus = g, !.gpuSupported = s, !.project = p,
                   !.image = "path"] :
        f \in {"n1", "a2", "a3", "a3-ultragpu", "other"}, g \in 0..2, s, p \in BOOLEAN}
        \X {[Served EXCEPT !.typesAllowed = l, !.typeListed = t, !.accelerator = a] :
              l, t, a \in BOOLEAN}

Quotas ==
    {[Plain EXCEPT !.family = f, !.gpus = IF f = "n1" THEN 1 ELSE 0, !.gpuCount = n] :
        f \in {"n1", "a2"}, n \in 0..MaxInt32}
        \X ({[Served EXCEPT !.usage = u, !.limit = l] :
               u, l \in {0, 1, MaxInt32, MaxUnits}}
             \cup {[Served EXCEPT !.metered = FALSE]})

AllStarts ==
    Secrets \cup Scheduling \cup Images \cup Labels \cup Tags
        \cup Confidential \cup Accelerators \cup Quotas
=============================================================================
