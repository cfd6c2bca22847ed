---------------------------- MODULE BrokerAccounts ----------------------------
(***************************************************************************)
(* A user's broker accounts (broker_service.py) and the envelope           *)
(* encryption of their credentials (core/encryption.py).                   *)
(*                                                                         *)
(* An update and a connection test read the row, await and commit; nothing *)
(* locks it, and a commit writes only the columns that differ from what    *)
(* was read.  The credentials are three columns: a ciphertext, with the    *)
(* wrapped key in it, its nonce, and the version of the key that wrapped   *)
(* it.  Processes of two versions run next to each other while a new key   *)
(* is rolled out.                                                          *)
(*                                                                         *)
(* A ciphertext and a nonce are named after the encryption that made them. *)
(* Left out: logins, servers, leverage, currency and the cached balance,   *)
(* which no request writes.                                                *)
(***************************************************************************)
EXTENDS Naturals

CONSTANTS Accounts,   \* ids a row may get
          Labels, Requests,
          Keys,       \* the versions of the key in use, one per process
          MaxSealed   \* bound: encryptions

Parameters == Keys # {} /\ Keys \subseteq Nat /\ MaxSealed \in Nat

Encryptions == 1 .. MaxSealed

\* ciphertext: by which encryption, under which key.  synced: the encryption whose
\* credentials the bridge last took, kept for what last_sync_at says; 0 if none.
Row == [label : Labels, active : BOOLEAN, deleted : BOOLEAN,
        ciphertext : Encryptions \X Keys, nonce : Encryptions, version : Keys,
        synced : 0 .. MaxSealed]

Ops == {"update", "delete", "test"}
Idle == [op |-> "idle"]

VARIABLES
  rows,     \* the committed rows, by id
  sealed,   \* how many encryptions there have been
  req       \* [Requests -> what it read and what its object is now, or Idle]

vars == <<rows, sealed, req>>

Request == [op : Ops, id : Accounts, read : Row, object : Row]

TypeOK ==
  /\ DOMAIN rows \subseteq Accounts /\ \A a \in DOMAIN rows : rows[a] \in Row
  /\ sealed \in 0 .. MaxSealed
  /\ req \in [Requests -> Request \cup {Idle}]

Init ==
  /\ rows = [a \in {} |-> {}]
  /\ sealed = 0
  /\ req = [r \in Requests |-> Idle]

\* broker_accounts_label_uniq: of the rows that are not deleted.
LabelIsFree(label, a) ==
  \A b \in DOMAIN rows \ {a} : rows[b].deleted \/ rows[b].label # label

-----------------------------------------------------------------------------
(***************************************************************************)
(* The envelope                                                            *)
(***************************************************************************)

\* encrypt and _pack_blob_for_column, by a process that has key k: all three columns anew.
SealedBy(row, n, k) == [row EXCEPT !.ciphertext = <<n, k>>, !.nonce = n, !.version = k]

\* _unpack_blob_from_column and decrypt: the version is not looked at, the process's key is
\* used for all.
Opens(row, k) == row.ciphertext = <<row.nonce, k>>

(***************************************************************************)
(* Creation: one INSERT                                                    *)
(***************************************************************************)

Create(a, label, k) ==
  /\ a \notin DOMAIN rows /\ LabelIsFree(label, a) /\ sealed < MaxSealed
  /\ sealed' = sealed + 1
  /\ LET new == [label |-> label, active |-> TRUE, deleted |-> FALSE,
                 ciphertext |-> <<sealed', k>>, nonce |-> sealed', version |-> k, synced |-> 0]
     IN rows' = [b \in DOMAIN rows \cup {a} |-> IF b = a THEN new ELSE rows[b]]
  /\ UNCHANGED req

(***************************************************************************)
(* Requests on a row                                                       *)
(***************************************************************************)

\* _own.  What an update or a delete does to the object needs no await, nor does
\* decrypting; so the object is changed here and committed later.
Loads(r, op, a, object) ==
  /\ req[r] = Idle /\ ~rows[a].deleted
  /\ req' = [req EXCEPT ![r] = [op |-> op, id |-> a, read |-> rows[a], object |-> object]]
  /\ UNCHANGED rows

BeginRename(r, a, label) ==
  /\ Loads(r, "update", a, [rows[a] EXCEPT !.label = label])
  /\ UNCHANGED sealed

BeginSwitch(r, a, active) ==
  /\ Loads(r, "update", a, [rows[a] EXCEPT !.active = active])
  /\ UNCHANGED sealed

BeginReseal(r, a, k) ==
  /\ sealed < MaxSealed /\ sealed' = sealed + 1
  /\ Loads(r, "update", a, SealedBy(rows[a], sealed', k))

BeginDelete(r, a) ==
  /\ Loads(r, "delete", a, [rows[a] EXCEPT !.deleted = TRUE, !.active = FALSE])
  /\ UNCHANGED sealed

\* test_connection goes on to the bridge only if this process can decrypt.
BeginTest(r, a, k) ==
  /\ Opens(rows[a], k)
  /\ Loads(r, "test", a, [rows[a] EXCEPT !.synced = rows[a].nonce])
  /\ UNCHANGED sealed

\* The flush: a column that does not differ from what was read is not written.
Merged(row, read, object) ==
  [c \in DOMAIN row |-> IF object[c] = read[c] THEN row[c] ELSE object[c]]

Ends(r) == req' = [req EXCEPT ![r] = Idle] /\ UNCHANGED sealed

\* commit; the row is found by its id, deleted or not.
Commit(r) ==
  /\ req[r] # Idle
  /\ LET a == req[r].id
         now == Merged(rows[a], req[r].read, req[r].object) IN
     /\ now.deleted \/ LabelIsFree(now.label, a)
     /\ rows' = [rows EXCEPT ![a] = now]
  /\ Ends(r)

\* The unique index refuses the commit, the bridge does not answer or says no, the
\* request is dropped: nothing is written.
Fails(r) == req[r] # Idle /\ UNCHANGED rows /\ Ends(r)

Next ==
  \/ \E a \in Accounts, label \in Labels, k \in Keys : Create(a, label, k)
  \/ \E r \in Requests, a \in DOMAIN rows :
       \/ \E label \in Labels : BeginRename(r, a, label)
       \/ \E active \in BOOLEAN : BeginSwitch(r, a, active)
       \/ \E k \in Keys : BeginReseal(r, a, k) \/ BeginTest(r, a, k)
       \/ BeginDelete(r, a)
  \/ \E r \in Requests : Commit(r) \/ Fails(r)

Spec == Init /\ [][Next]_vars

-----------------------------------------------------------------------------
(* However the commits of requests merge, the stored ciphertext and nonce  *)
(* are of one encryption, so that a process with its key opens it, and an  *)
(* account once deleted stays deleted (broker_service.py:154-191).         *)
CredentialsOpen ==
  \A a \in DOMAIN rows : \E k \in Keys : Opens(rows[a], k)

DeletedStaysDeleted ==
  [][\A a \in DOMAIN rows : rows[a].deleted => rows'[a].deleted]_vars

(* The stored version is that of the key that sealed the credentials       *)
(* (encryption.py:18, models/broker_account.py:52-54).  Violated: an       *)
(* update by a process of the version that was read does not write the     *)
(* column, and so keeps what a process of another version wrote meanwhile. *)
KeyVersionTells == \A a \in DOMAIN rows : rows[a].version = rows[a].ciphertext[2]

(* A deleted account is not active (broker_service.py:179-191).  Violated: *)
(* an update that read the row before, or a deletion of an account that    *)
(* was switched on meanwhile, merges into a row that is both.              *)
DeletedIsInactive == \A a \in DOMAIN rows : rows[a].deleted => ~rows[a].active
=============================================================================
