----------------------------- MODULE Instances ------------------------------
(***************************************************************************)
(* The table instances: what the API's handlers and the worker's host key  *)
(* callback write to it.  Owner, name, host and port never change after    *)
(* the insertion and are left out; the two encrypted credentials are       *)
(* reduced to what comes of them when a job uses them.                     *)
(***************************************************************************)
EXTENDS Models

CONSTANTS Instance,  \* identifiers of the instances that may ever be inserted
          InstOf,    \* the instance_id foreign key of each job
          Keys,      \* host keys (their fingerprints)
          None,      \* no row yet; no fingerprint (NULL)
          Deleted    \* no row any more

\* "right" logs in, "wrong" does not, "unusable" is empty or cannot be
\* decrypted: BulkCreate encrypts an empty password like any other.
Credential == {"right", "wrong", "unusable"}
InstanceRow == [cred : Credential, pin : Keys \cup {None}]

ASSUME InstanceAssumption ==
    /\ InstOf \in [Jobs -> Instance]
    /\ None \notin InstanceRow /\ None \notin Keys
    /\ Deleted \notin InstanceRow

VARIABLE inst

Exists(i) == inst[i] \notin {None, Deleted}

InsertInstance(i, c) ==
    /\ inst[i] = None
    /\ inst' = [inst EXCEPT ![i] = [cred |-> c, pin |-> None]]

\* The handler Update calls this one: the fingerprint stays.
UpdateInstanceSSH(i, c) ==
    /\ Exists(i)
    /\ inst' = [inst EXCEPT ![i].cred = c]

\* Mutant: no condition on the fingerprint in the WHERE clause.
OverwriteHostKey(i, k) ==
    inst' = IF Exists(i) THEN [inst EXCEPT ![i].pin = k] ELSE inst

\* UPDATE ... WHERE the fingerprint is NULL or the same; that no row was
\* updated is not an error.
UpdateHostKey(i, k) ==
    inst' = IF Exists(i) /\ inst[i].pin \in {None, k}
            THEN [inst EXCEPT ![i].pin = k]
            ELSE inst

\* Mutant: the foreign keys are not enforced.
DeleteAnyway(i, referenced) ==
    /\ Exists(i)
    /\ inst' = [inst EXCEPT ![i] = Deleted]

\* jobs.instance_id and event_instances refer to the row without a cascade:
\* DELETE fails once an event has used the instance.
DeleteInstance(i, referenced) ==
    /\ Exists(i)
    /\ i \notin referenced
    /\ inst' = [inst EXCEPT ![i] = Deleted]
=============================================================================
