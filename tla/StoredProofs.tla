----------------------------- MODULE StoredProofs -----------------------------
(***************************************************************************)
(* Proofs about what is stored: the rows that several requests commit by   *)
(* merging, and the keys of the limiter; and that every component of the   *)
(* side keeps its types.                                                   *)
(***************************************************************************)
EXTENDS DeliveryProofs

-----------------------------------------------------------------------------
(* BrokerAccounts: the credentials.                                        *)

(* Ciphertext and nonce are of one of the first n encryptions.             *)
Sound(x, n) == x.ciphertext[1] = x.nonce /\ x.nonce <= n

(* A request read a row that was not deleted, and changes both columns of  *)
(* the credentials or neither: another encryption has another nonce.       *)
Pairs(q, n) ==
  /\ Sound(q.read, n) /\ Sound(q.object, n) /\ ~q.read.deleted
  /\ q.object.nonce = q.read.nonce => q.object.ciphertext = q.read.ciphertext

AccountsInv ==
  /\ Accounts!TypeOK
  /\ \A a \in DOMAIN accounts : Sound(accounts[a], sealed)
  /\ \A r \in Edits : editor[r] # Accounts!Idle => Pairs(editor[r], sealed)

LEMMA AccountConstants == Keys \subseteq Nat /\ MaxSealed \in Nat
BY BackendParameters DEF BackendParameters, Accounts!Parameters

LEMMA AccountsInvInit == Accounts!Init => AccountsInv
BY AccountConstants DEF Accounts!Init, AccountsInv, Accounts!TypeOK

LEMMA SoundLater ==
  ASSUME NEW x \in Accounts!Row, NEW m \in Nat, NEW n \in Nat, m <= n, Sound(x, m)
  PROVE  Sound(x, n)
BY AccountConstants DEF Sound, Accounts!Row, Accounts!Encryptions

(* What encrypting makes of a row.                                         *)
LEMMA SealedRow ==
  ASSUME NEW x \in Accounts!Row, NEW n \in Accounts!Encryptions, NEW k \in Keys
  PROVE  LET y == Accounts!SealedBy(x, n, k) IN
         y \in Accounts!Row /\ Sound(y, n) /\ y.nonce = n
<1> DEFINE y == Accounts!SealedBy(x, n, k)
<1>1. <<n, k>> \in Accounts!Encryptions \X Keys /\ <<n, k>>[1] = n
  OBVIOUS
<1>2. y.ciphertext = <<n, k>> /\ y.nonce = n /\ y.version = k
  BY DEF Accounts!SealedBy, Accounts!Row
<1>3. y \in Accounts!Row
  BY <1>1 DEF Accounts!SealedBy, Accounts!Row
<1>4. y.nonce <= n
  BY <1>2, AccountConstants DEF Accounts!Encryptions
<1> QED
  BY <1>1, <1>2, <1>3, <1>4 DEF Sound

(* A merge of a row with what a request read and made of it: each column   *)
(* is of the row or of the object.                                         *)
LEMMA MergedColumns ==
  ASSUME NEW x \in Accounts!Row, NEW q \in Accounts!Request
  PROVE  LET y == Accounts!Merged(x, q.read, q.object) IN
         /\ y \in Accounts!Row
         /\ y.ciphertext = IF q.object.ciphertext = q.read.ciphertext
                             THEN x.ciphertext ELSE q.object.ciphertext
         /\ y.nonce = IF q.object.nonce = q.read.nonce THEN x.nonce ELSE q.object.nonce
         /\ y.deleted = IF q.object.deleted = q.read.deleted THEN x.deleted ELSE q.object.deleted
<1> DEFINE y == Accounts!Merged(x, q.read, q.object)
           o == q.object
<1>1. q.object \in Accounts!Row /\ q.read \in Accounts!Row
  BY DEF Accounts!Request
<1>2. DOMAIN x = {"label", "active", "deleted", "ciphertext", "nonce", "version", "synced"}
  BY DEF Accounts!Row
<1>3. /\ y = [c \in DOMAIN x |-> y[c]]
      /\ \A c \in DOMAIN x : y[c] = IF o[c] = q.read[c] THEN x[c] ELSE o[c]
  BY DEF Accounts!Merged
<1> HIDE DEF y, o
<1>4. \A c \in DOMAIN x : y[c] = x[c] \/ y[c] = o[c]
  BY <1>3
<1>5. y = [label |-> y.label, active |-> y.active, deleted |-> y.deleted,
           ciphertext |-> y.ciphertext, nonce |-> y.nonce, version |-> y.version,
           synced |-> y.synced]
  BY <1>2, <1>3
<1>6. y \in Accounts!Row
  BY <1>1, <1>2, <1>4, <1>5 DEF Accounts!Row, o
<1> QED
  BY <1>2, <1>3, <1>6 DEF y, o

(* A request is over: its row may have been written.                       *)
LEMMA RequestEnds ==
  ASSUME AccountsInv, NEW r \in Edits, editor' = [editor EXCEPT ![r] = Accounts!Idle],
         UNCHANGED sealed, DOMAIN accounts' = DOMAIN accounts,
         \A a \in DOMAIN accounts :
           accounts'[a] \in Accounts!Row /\ Sound(accounts'[a], sealed)
  PROVE  AccountsInv'
<1>1. /\ editor' \in [Edits -> Accounts!Request \cup {Accounts!Idle}]
      /\ \A s \in Edits : editor'[s] = IF s = r THEN Accounts!Idle ELSE editor[s]
  BY DEF AccountsInv, Accounts!TypeOK
<1>2. \A s \in Edits : editor'[s] # Accounts!Idle => Pairs(editor'[s], sealed)
  BY <1>1 DEF AccountsInv
<1> QED
  BY <1>1, <1>2 DEF AccountsInv, Accounts!TypeOK

LEMMA Commits ==
  ASSUME AccountsInv, NEW r \in Edits, Accounts!Commit(r)
  PROVE  AccountsInv' /\ (\A b \in DOMAIN accounts : accounts[b].deleted => accounts'[b].deleted)
<1> DEFINE q == editor[r]
           a == q.id
           y == Accounts!Merged(accounts[a], q.read, q.object)
<1>1. /\ q # Accounts!Idle /\ accounts' = [accounts EXCEPT ![a] = y]
      /\ editor' = [editor EXCEPT ![r] = Accounts!Idle] /\ UNCHANGED sealed
  BY DEF Accounts!Commit, Accounts!Ends
<1>2. q \in Accounts!Request /\ Pairs(q, sealed)
  BY <1>1 DEF AccountsInv, Accounts!TypeOK
<1> HIDE DEF q, a
<1>3. DOMAIN accounts' = DOMAIN accounts
  BY <1>1
<1>4. ASSUME a \in DOMAIN accounts
      PROVE  /\ y \in Accounts!Row /\ Sound(y, sealed)
             /\ accounts[a].deleted => y.deleted
  <2> DEFINE x == accounts[a]
  <2>1. x \in Accounts!Row /\ Sound(x, sealed)
    BY <1>4 DEF AccountsInv, Accounts!TypeOK
  <2> HIDE DEF x
  <2> DEFINE z == Accounts!Merged(x, q.read, q.object)
  <2>2. /\ z \in Accounts!Row
        /\ z.ciphertext = IF q.object.ciphertext = q.read.ciphertext
                            THEN x.ciphertext ELSE q.object.ciphertext
        /\ z.nonce = IF q.object.nonce = q.read.nonce THEN x.nonce ELSE q.object.nonce
        /\ z.deleted = IF q.object.deleted = q.read.deleted THEN x.deleted ELSE q.object.deleted
    BY <1>2, <2>1, MergedColumns
  <2> HIDE DEF z
  <2>3. q.object.nonce = q.read.nonce <=> q.object.ciphertext = q.read.ciphertext
    BY <1>2 DEF Pairs, Sound
  <2>4. Sound(z, sealed)
    BY <1>2, <2>1, <2>2, <2>3 DEF Pairs, Sound
  <2>5. x.deleted => z.deleted
    <3>1. q.object.deleted \in BOOLEAN /\ q.read.deleted = FALSE
      BY <1>2 DEF Pairs, Accounts!Request, Accounts!Row
    <3> QED
      BY <2>2, <3>1
  <2> QED
    BY <2>2, <2>4, <2>5 DEF z, x
<1> HIDE DEF y
<1>5. \A b \in DOMAIN accounts :
        /\ accounts'[b] \in Accounts!Row /\ Sound(accounts'[b], sealed)
        /\ accounts[b].deleted => accounts'[b].deleted
  BY <1>1, <1>4 DEF AccountsInv, Accounts!TypeOK
<1> QED
  BY <1>1, <1>3, <1>5, RequestEnds

(* A request reads a row and changes an object of its own.                 *)
LEMMA RequestReads ==
  ASSUME AccountsInv, NEW r \in Edits, NEW a \in DOMAIN accounts, NEW op \in Accounts!Ops,
         NEW y \in Accounts!Row, Accounts!Loads(r, op, a, y),
         sealed' \in 0..MaxSealed, sealed <= sealed', Sound(y, sealed'),
         y.nonce = accounts[a].nonce => y.ciphertext = accounts[a].ciphertext
  PROVE  AccountsInv'
<1> DEFINE q == [op |-> op, id |-> a, read |-> accounts[a], object |-> y]
<1>0. sealed \in Nat /\ sealed' \in Nat
  BY AccountConstants DEF AccountsInv, Accounts!TypeOK
<1>1. editor' = [editor EXCEPT ![r] = q] /\ UNCHANGED accounts /\ ~accounts[a].deleted
  BY DEF Accounts!Loads
<1>2. \A b \in DOMAIN accounts : Sound(accounts[b], sealed')
  BY <1>0, SoundLater DEF AccountsInv, Accounts!TypeOK
<1>3. q \in Accounts!Request
  BY DEF AccountsInv, Accounts!TypeOK, Accounts!Request
<1>4. Pairs(q, sealed')
  BY <1>1, <1>2 DEF Pairs
<1> HIDE DEF q
<1>5. \A s \in Edits : editor'[s] = IF s = r THEN q ELSE editor[s]
  BY <1>1 DEF AccountsInv, Accounts!TypeOK
<1>6. ASSUME NEW s \in Edits, s # r, editor[s] # Accounts!Idle
      PROVE  Pairs(editor[s], sealed')
  <2>1. editor[s] \in Accounts!Request /\ Pairs(editor[s], sealed)
    BY <1>6 DEF AccountsInv, Accounts!TypeOK
  <2> QED
    BY <1>0, <2>1, SoundLater DEF Pairs, Accounts!Request
<1>7. editor' \in [Edits -> Accounts!Request \cup {Accounts!Idle}]
  BY <1>1, <1>3 DEF AccountsInv, Accounts!TypeOK
<1> QED
  BY <1>1, <1>2, <1>4, <1>5, <1>6, <1>7 DEF AccountsInv, Accounts!TypeOK

LEMMA RequestBegins ==
  ASSUME AccountsInv, NEW r \in Edits, NEW a \in DOMAIN accounts,
         \/ \E label \in Labels : Accounts!BeginRename(r, a, label)
         \/ \E active \in BOOLEAN : Accounts!BeginSwitch(r, a, active)
         \/ Accounts!BeginDelete(r, a)
         \/ \E k \in Keys : Accounts!BeginTest(r, a, k)
  PROVE  AccountsInv'
<1> DEFINE x == accounts[a]
           Kept(y) == y \in Accounts!Row /\ y.nonce = x.nonce /\ y.ciphertext = x.ciphertext
<1>1. x \in Accounts!Row /\ Sound(x, sealed) /\ sealed \in 0..MaxSealed
  BY DEF AccountsInv, Accounts!TypeOK
<1>2. ASSUME NEW op \in Accounts!Ops, NEW y, Kept(y), Accounts!Loads(r, op, a, y),
             UNCHANGED sealed
      PROVE  AccountsInv'
  <2>1. Sound(y, sealed') /\ sealed' \in 0..MaxSealed /\ sealed <= sealed'
    BY <1>1, <1>2, AccountConstants DEF Sound
  <2> QED
    BY <1>2, <2>1, RequestReads
<1> HIDE DEF x
<1>3. \A label \in Labels : Kept([x EXCEPT !.label = label])
  BY <1>1 DEF Accounts!Row
<1>4. \A active \in BOOLEAN : Kept([x EXCEPT !.active = active])
  BY <1>1 DEF Accounts!Row
<1>5. Kept([x EXCEPT !.deleted = TRUE, !.active = FALSE])
  BY <1>1 DEF Accounts!Row
<1>6. Kept([x EXCEPT !.synced = x.nonce])
  BY <1>1, AccountConstants DEF Accounts!Row, Accounts!Encryptions
<1>7. {"update", "delete", "test"} \subseteq Accounts!Ops
  BY DEF Accounts!Ops
<1> HIDE DEF Kept
<1>8. CASE \E label \in Labels : Accounts!BeginRename(r, a, label)
  BY <1>2, <1>3, <1>7, <1>8 DEF Accounts!BeginRename, x
<1>9. CASE \E active \in BOOLEAN : Accounts!BeginSwitch(r, a, active)
  BY <1>2, <1>4, <1>7, <1>9 DEF Accounts!BeginSwitch, x
<1>10. CASE Accounts!BeginDelete(r, a)
  BY <1>2, <1>5, <1>7, <1>10 DEF Accounts!BeginDelete, x
<1>11. CASE \E k \in Keys : Accounts!BeginTest(r, a, k)
  BY <1>2, <1>6, <1>7, <1>11 DEF Accounts!BeginTest, x
<1> QED
  BY <1>8, <1>9, <1>10, <1>11

LEMMA Reseals ==
  ASSUME AccountsInv, NEW r \in Edits, NEW a \in DOMAIN accounts, NEW k \in Keys,
         Accounts!BeginReseal(r, a, k)
  PROVE  AccountsInv'
<1> DEFINE y == Accounts!SealedBy(accounts[a], sealed', k)
<1>1. /\ accounts[a] \in Accounts!Row /\ Sound(accounts[a], sealed)
      /\ sealed \in 0..MaxSealed /\ sealed < MaxSealed /\ sealed' = sealed + 1
      /\ Accounts!Loads(r, "update", a, y)
  BY DEF AccountsInv, Accounts!TypeOK, Accounts!BeginReseal
<1>2. sealed' \in Accounts!Encryptions /\ sealed' \in 0..MaxSealed /\ sealed <= sealed'
  BY <1>1, AccountConstants DEF Accounts!Encryptions
<1>3. y \in Accounts!Row /\ Sound(y, sealed') /\ y.nonce = sealed'
  BY <1>1, <1>2, SealedRow
<1>4. accounts[a].nonce # sealed'
  BY <1>1, AccountConstants DEF Sound, Accounts!Row, Accounts!Encryptions
<1> HIDE DEF y
<1> QED
  BY <1>1, <1>2, <1>3, <1>4, RequestReads DEF Accounts!Ops

LEMMA Creates ==
  ASSUME AccountsInv, NEW a \in AccountIds, NEW label \in Labels, NEW k \in Keys,
         Accounts!Create(a, label, k)
  PROVE  AccountsInv' /\ (\A b \in DOMAIN accounts : accounts'[b] = accounts[b])
<1> DEFINE new == [label |-> label, active |-> TRUE, deleted |-> FALSE,
                   ciphertext |-> <<sealed', k>>, nonce |-> sealed', version |-> k, synced |-> 0]
<1>1. /\ sealed \in 0..MaxSealed /\ sealed < MaxSealed /\ sealed' = sealed + 1
      /\ accounts' = [b \in DOMAIN accounts \cup {a} |-> IF b = a THEN new ELSE accounts[b]]
      /\ a \notin DOMAIN accounts /\ UNCHANGED editor
  BY DEF AccountsInv, Accounts!TypeOK, Accounts!Create
<1>2. /\ sealed' \in Accounts!Encryptions /\ sealed' \in 0..MaxSealed /\ sealed <= sealed'
      /\ sealed \in Nat /\ sealed' \in Nat
  BY <1>1, AccountConstants DEF Accounts!Encryptions
<1>3. <<sealed', k>> \in Accounts!Encryptions \X Keys /\ <<sealed', k>>[1] = sealed'
  BY <1>2
<1>4. new \in Accounts!Row /\ Sound(new, sealed')
  BY <1>2, <1>3, AccountConstants DEF Accounts!Row, Sound
<1> HIDE DEF new
<1>5. \A b \in DOMAIN accounts' : accounts'[b] \in Accounts!Row /\ Sound(accounts'[b], sealed')
  BY <1>1, <1>2, <1>4, SoundLater DEF AccountsInv, Accounts!TypeOK
<1>6. ASSUME NEW s \in Edits, editor[s] # Accounts!Idle PROVE Pairs(editor[s], sealed')
  <2>1. editor[s] \in Accounts!Request /\ Pairs(editor[s], sealed)
    BY <1>6 DEF AccountsInv, Accounts!TypeOK
  <2> QED
    BY <1>2, <2>1, SoundLater DEF Pairs, Accounts!Request
<1>7. Accounts!TypeOK'
  BY <1>1, <1>2, <1>5 DEF AccountsInv, Accounts!TypeOK
<1> QED
  BY <1>1, <1>5, <1>6, <1>7 DEF AccountsInv

LEMMA AccountsStep ==
  ASSUME AccountsInv, [Next]_vars
  PROVE  AccountsInv' /\ (\A b \in DOMAIN accounts : accounts[b].deleted => accounts'[b].deleted)
<1>1. CASE UNCHANGED brokers
  BY <1>1 DEF brokers, AccountsInv, Accounts!TypeOK
<1>2. ASSUME NEW a \in AccountIds, NEW label \in Labels, NEW k \in Keys,
             Accounts!Create(a, label, k)
      PROVE  AccountsInv' /\ (\A b \in DOMAIN accounts : accounts[b].deleted => accounts'[b].deleted)
  BY <1>2, Creates
<1>3. ASSUME NEW r \in Edits, NEW a \in DOMAIN accounts,
             \/ \E label \in Labels : Accounts!BeginRename(r, a, label)
             \/ \E active \in BOOLEAN : Accounts!BeginSwitch(r, a, active)
             \/ Accounts!BeginDelete(r, a)
             \/ \E k \in Keys : Accounts!BeginTest(r, a, k)
             \/ \E k \in Keys : Accounts!BeginReseal(r, a, k)
      PROVE  AccountsInv' /\ (\A b \in DOMAIN accounts : accounts[b].deleted => accounts'[b].deleted)
  <2>1. UNCHANGED accounts
    BY <1>3 DEF Accounts!BeginRename, Accounts!BeginSwitch, Accounts!BeginDelete,
                Accounts!BeginTest, Accounts!BeginReseal, Accounts!Loads
  <2>2. AccountsInv'
    BY <1>3, RequestBegins, Reseals
  <2> QED
    BY <2>1, <2>2
<1>4. ASSUME NEW r \in Edits, Accounts!Fails(r)
      PROVE  AccountsInv' /\ (\A b \in DOMAIN accounts : accounts[b].deleted => accounts'[b].deleted)
  <2>1. UNCHANGED <<accounts, sealed>> /\ editor' = [editor EXCEPT ![r] = Accounts!Idle]
    BY <1>4 DEF Accounts!Fails, Accounts!Ends
  <2>2. \A a \in DOMAIN accounts : accounts[a] \in Accounts!Row /\ Sound(accounts[a], sealed)
    BY DEF AccountsInv, Accounts!TypeOK
  <2> QED
    BY <2>1, <2>2, RequestEnds
<1>5. ASSUME NEW r \in Edits, Accounts!Commit(r)
      PROVE  AccountsInv' /\ (\A b \in DOMAIN accounts : accounts[b].deleted => accounts'[b].deleted)
  BY <1>5, Commits
<1> QED
  BY <1>1, <1>2, <1>3, <1>4, <1>5, StepOfEach DEF Accounts!Next

(* Rows and sessions alike have ciphertext and nonce of one encryption,    *)
(* whichever commits merge.                                                *)
THEOREM AccountsInvariant == Spec => []AccountsInv
<1>1. Init => AccountsInv
  BY AccountsInvInit DEF Init
<1>2. AccountsInv /\ [Next]_vars => AccountsInv'
  BY AccountsStep
<1> QED
  BY <1>1, <1>2, PTL DEF Spec

-----------------------------------------------------------------------------
(* Reports: the row of the instance and the rows of the posts.             *)

LEMMA ReportConstants ==
  /\ MaxPosts \in Nat /\ MaxCopies \in Nat /\ MaxReportTime \in Nat /\ IsFiniteSet(Handlers)
  /\ \A S : Rep!Cardinality(S) = Cardinality(S)
<1>1. \A S : Rep!Cardinality(S) = Cardinality(S)
  BY DEF Rep!Cardinality, Cardinality
<1>2. Rep!IsFiniteSet(Handlers) => IsFiniteSet(Handlers)
  BY DEF Rep!IsFiniteSet, IsFiniteSet
<1> QED
  BY <1>1, <1>2, BackendParameters DEF BackendParameters, Rep!Parameters

(* A request leaves the status as it read it, or kills.                    *)
LeavesOrKills(q) == q.object.status \in {q.read.status, "killed"}

ReportsInv ==
  /\ time \in 0..MaxReportTime /\ config \in Configs /\ live \in Rep!Row
  /\ posts \subseteq Rep!Post /\ IsFiniteSet(posts)
  /\ worker \in [Handlers -> Rep!Handler \cup {Rep!Idle}]
  /\ inserted \in [1..MaxPosts -> Nat]
  /\ \A n \in 1..MaxPosts : Rep!Copies(n) <= MaxCopies
  /\ \A w \in Handlers : worker[w] # Rep!Idle => LeavesOrKills(worker[w])

(* Those who are about to store a row of post n.                           *)
Storing(n) == {w \in Handlers : worker[w].n = n}

LEMMA CopiesCount ==
  ASSUME NEW n
  PROVE  /\ Rep!Copies(n) = inserted[n] + Cardinality(Storing(n))
         /\ Rep!Copies(n)' = inserted'[n] + Cardinality(Storing(n)')
         /\ IsFiniteSet(Storing(n)) /\ Cardinality(Storing(n)) \in Nat
<1>1. IsFiniteSet(Storing(n))
  BY ReportConstants, FS_Subset DEF Storing
<1> QED
  BY <1>1, ReportConstants, FS_CardinalityType DEF Rep!Copies, Storing

LEMMA ReportsInvInit == Rep!Init => ReportsInv
<1> SUFFICES ASSUME Rep!Init PROVE ReportsInv
  OBVIOUS
<1>1. /\ time = 0 /\ config \in Configs /\ posts = {}
      /\ inserted = [n \in 1..MaxPosts |-> 0] /\ worker = [w \in Handlers |-> Rep!Idle]
  BY DEF Rep!Init
<1>2. live \in Rep!Row
  BY ReportConstants DEF Rep!Init, Rep!Row, Rep!Times
<1>3. ASSUME NEW n \in 1..MaxPosts PROVE Rep!Copies(n) <= MaxCopies
  <2>1. Storing(n) = {}
    BY <1>1, ReportConstants DEF Storing, Rep!Idle
  <2> QED
    BY <1>1, <2>1, CopiesCount, FS_EmptySet, ReportConstants
<1> QED
  BY <1>1, <1>2, <1>3, FS_EmptySet, ReportConstants DEF ReportsInv

LEMMA MergedReport ==
  ASSUME NEW x \in Rep!Row, NEW q \in Rep!Handler
  PROVE  LET y == Rep!Merged(x, q.read, q.object) IN
         /\ y \in Rep!Row
         /\ y.status = IF q.object.status = q.read.status THEN x.status ELSE q.object.status
<1> DEFINE y == Rep!Merged(x, q.read, q.object)
           o == q.object
<1>1. o \in Rep!Row
  BY DEF Rep!Handler
<1>2. DOMAIN x = {"status", "kill_switch_armed", "daily_loss_today_cents", "last_signal_at"}
  BY DEF Rep!Row
<1>3. /\ y = [c \in DOMAIN x |-> y[c]]
      /\ \A c \in DOMAIN x : y[c] = IF o[c] = q.read[c] THEN x[c] ELSE o[c]
  BY DEF Rep!Merged
<1> HIDE DEF y, o
<1>4. \A c \in DOMAIN x : y[c] = x[c] \/ y[c] = o[c]
  BY <1>3
<1>5. y = [status |-> y.status, kill_switch_armed |-> y.kill_switch_armed,
           daily_loss_today_cents |-> y.daily_loss_today_cents,
           last_signal_at |-> y.last_signal_at]
  BY <1>2, <1>3
<1>6. y \in Rep!Row
  BY <1>1, <1>2, <1>4, <1>5 DEF Rep!Row
<1> QED
  BY <1>2, <1>3, <1>6 DEF y, o

(* What a handler makes of the row it read.                                *)
LEMMA TouchedRow ==
  ASSUME NEW x \in Rep!Row, NEW p \in Rep!Post
  PROVE  Rep!Touched(p, x) \in Rep!Row /\ Rep!Touched(p, x).status = x.status
<1>1. p.kind \in {"signal", "trade", "health"} /\ p.ts \in 0..MaxReportTime /\ p.loss \in 0..1
  BY DEF Rep!Post, Rep!Kinds, Rep!Times
<1>2. CASE p.kind = "signal"
  BY <1>1, <1>2 DEF Rep!Touched, Rep!Row, Rep!Times
<1>3. CASE p.kind = "trade"
  BY <1>3 DEF Rep!Touched
<1>4. CASE p.kind = "health"
  BY <1>1, <1>4 DEF Rep!Touched, Rep!Row, Rep!Times
<1> QED
  BY <1>1, <1>2, <1>3, <1>4

(* A handler turns to q.                                                   *)
LEMMA HandlerTurns ==
  ASSUME ReportsInv, NEW w \in Handlers, NEW q \in Rep!Handler \cup {Rep!Idle},
         worker' = [worker EXCEPT ![w] = q], q # Rep!Idle => LeavesOrKills(q)
  PROVE  /\ worker' \in [Handlers -> Rep!Handler \cup {Rep!Idle}]
         /\ \A v \in Handlers : worker'[v] # Rep!Idle => LeavesOrKills(worker'[v])
         /\ \A n : Storing(n)' = (Storing(n) \ {w}) \cup (IF q.n = n THEN {w} ELSE {})
BY DEF ReportsInv, Storing

LEMMA ReportArrives ==
  ASSUME ReportsInv, NEW w \in Handlers, NEW p \in posts, Rep!Receive(w, p)
  PROVE  ReportsInv'
<1> DEFINE q == [n |-> p.n, read |-> live, object |-> Rep!Touched(p, live)]
<1>1. /\ worker[w] = Rep!Idle /\ worker' = [worker EXCEPT ![w] = q]
      /\ Rep!Copies(p.n) < MaxCopies /\ UNCHANGED <<time, config, live, inserted, posts>>
  BY DEF Rep!Receive
<1>2. p \in Rep!Post /\ p.n \in 1..MaxPosts /\ live \in Rep!Row
  BY DEF ReportsInv, Rep!Post
<1>3. Rep!Touched(p, live) \in Rep!Row /\ Rep!Touched(p, live).status = live.status
  BY <1>2, TouchedRow
<1>4. q \in Rep!Handler /\ LeavesOrKills(q) /\ q.n = p.n
  BY <1>2, <1>3, ReportConstants DEF Rep!Handler, LeavesOrKills
<1> HIDE DEF q
<1>5. /\ worker' \in [Handlers -> Rep!Handler \cup {Rep!Idle}]
      /\ \A v \in Handlers : worker'[v] # Rep!Idle => LeavesOrKills(worker'[v])
      /\ \A n : Storing(n)' = (Storing(n) \ {w}) \cup (IF q.n = n THEN {w} ELSE {})
  BY <1>1, <1>4, HandlerTurns
<1>6. ASSUME NEW n \in 1..MaxPosts PROVE Rep!Copies(n)' <= MaxCopies
  <2>1. Rep!Copies(n) <= MaxCopies /\ inserted[n] \in Nat /\ inserted'[n] = inserted[n]
    BY <1>1 DEF ReportsInv
  <2>2. CASE n = p.n
    <3>1. Storing(n)' = Storing(n) \cup {w} /\ w \notin Storing(n)
      BY <1>1, <1>2, <1>4, <1>5, <2>2, ReportConstants DEF Storing, Rep!Idle
    <3>2. Cardinality(Storing(n)') = Cardinality(Storing(n)) + 1
      BY <3>1, CopiesCount, FS_AddElement
    <3>3. Rep!Copies(n)' = inserted'[n] + Cardinality(Storing(n)')
      BY CopiesCount
    <3> QED
      BY <1>1, <2>1, <2>2, <3>2, <3>3, CopiesCount, ReportConstants
  <2>3. CASE n # p.n
    <3>1. Storing(n)' = Storing(n)
      BY <1>1, <1>2, <1>4, <1>5, <2>3, ReportConstants DEF Storing, Rep!Idle
    <3>2. Rep!Copies(n)' = inserted'[n] + Cardinality(Storing(n)')
      BY CopiesCount
    <3> QED
      BY <2>1, <3>1, <3>2, CopiesCount
  <2> QED
    BY <2>2, <2>3
<1> QED
  BY <1>1, <1>5, <1>6 DEF ReportsInv

LEMMA KillBegins ==
  ASSUME ReportsInv, NEW w \in Handlers, Rep!BeginKill(w)
  PROVE  ReportsInv'
<1> DEFINE y == [live EXCEPT !.status = "killed", !.kill_switch_armed = FALSE]
<1>2. live \in Rep!Row
  BY DEF ReportsInv
<1>3. y \in Rep!Row /\ y.status = "killed"
  BY <1>2 DEF Rep!Row
<1> DEFINE q == [n |-> 0, read |-> live, object |-> y]
<1>1. /\ worker[w] = Rep!Idle /\ worker' = [worker EXCEPT ![w] = q]
      /\ UNCHANGED <<time, config, live, inserted, posts>>
  BY DEF Rep!BeginKill
<1> HIDE DEF y
<1>4. q \in Rep!Handler /\ LeavesOrKills(q) /\ q.n = 0
  BY <1>2, <1>3, ReportConstants DEF Rep!Handler, LeavesOrKills
<1> HIDE DEF q
<1>5. /\ worker' \in [Handlers -> Rep!Handler \cup {Rep!Idle}]
      /\ \A v \in Handlers : worker'[v] # Rep!Idle => LeavesOrKills(worker'[v])
      /\ \A n : Storing(n)' = (Storing(n) \ {w}) \cup (IF q.n = n THEN {w} ELSE {})
  BY <1>1, <1>4, HandlerTurns
<1>6. ASSUME NEW n \in 1..MaxPosts PROVE Rep!Copies(n)' <= MaxCopies
  <2>1. Storing(n)' = Storing(n)
    BY <1>1, <1>4, <1>5, ReportConstants DEF Storing, Rep!Idle
  <2> QED
    BY <1>1, <2>1, CopiesCount DEF ReportsInv
<1> QED
  BY <1>1, <1>5, <1>6 DEF ReportsInv

(* A handler is done, and has stored a row of its post or not.             *)
LEMMA HandlerEnds ==
  ASSUME ReportsInv, NEW w \in Handlers, worker' = [worker EXCEPT ![w] = Rep!Idle],
         UNCHANGED <<time, config, posts>>, live' \in Rep!Row, inserted' \in [1..MaxPosts -> Nat],
         \A n \in 1..MaxPosts :
           inserted'[n] = inserted[n] \/ (inserted'[n] = inserted[n] + 1 /\ worker[w].n = n)
  PROVE  ReportsInv'
<1>1. Rep!Idle.n = 0
  BY DEF Rep!Idle
<1>2. /\ worker' \in [Handlers -> Rep!Handler \cup {Rep!Idle}]
      /\ \A v \in Handlers : worker'[v] # Rep!Idle => LeavesOrKills(worker'[v])
      /\ \A n : Storing(n)' = (Storing(n) \ {w}) \cup (IF Rep!Idle.n = n THEN {w} ELSE {})
  BY HandlerTurns
<1>3. ASSUME NEW n \in 1..MaxPosts PROVE Rep!Copies(n)' <= MaxCopies
  <2>1. Rep!Copies(n) <= MaxCopies /\ inserted[n] \in Nat /\ inserted'[n] \in Nat
    BY DEF ReportsInv
  <2>2. Storing(n)' = Storing(n) \ {w}
    BY <1>1, <1>2, ReportConstants
  <2>3. CASE worker[w].n = n
    <3>1. w \in Storing(n)
      BY <2>3 DEF Storing
    <3>2. Cardinality(Storing(n)') = Cardinality(Storing(n)) - 1
      BY <2>2, <3>1, CopiesCount, FS_RemoveElement
    <3>3. inserted'[n] <= inserted[n] + 1
      BY <2>1
    <3>4. /\ Rep!Copies(n) = inserted[n] + Cardinality(Storing(n))
          /\ Rep!Copies(n)' = inserted'[n] + (Cardinality(Storing(n)) - 1)
          /\ Cardinality(Storing(n)) \in Nat
      BY <3>2, CopiesCount
    <3> QED
      BY <2>1, <3>3, <3>4, ReportConstants
  <2>4. CASE worker[w].n # n
    <3>1. Storing(n)' = Storing(n)
      BY <2>2, <2>4 DEF Storing
    <3> QED
      BY <2>1, <2>4, <3>1, CopiesCount, ReportConstants
  <2> QED
    BY <2>3, <2>4
<1> QED
  BY <1>2, <1>3 DEF ReportsInv

LEMMA ReportCommits ==
  ASSUME ReportsInv, NEW w \in Handlers, Rep!Commit(w)
  PROVE  ReportsInv' /\ (live.status = "killed" => live'.status = "killed")
<1> DEFINE q == worker[w]
           y == Rep!Merged(live, q.read, q.object)
<1>1. /\ q # Rep!Idle /\ live' = y /\ worker' = [worker EXCEPT ![w] = Rep!Idle]
      /\ inserted' = [n \in DOMAIN inserted |->
                        inserted[n] + IF n = q.n /\ Rep!Inserts(n) THEN 1 ELSE 0]
      /\ UNCHANGED <<time, config, posts>>
  BY DEF Rep!Commit
<1>2. q \in Rep!Handler /\ LeavesOrKills(q) /\ live \in Rep!Row
  BY <1>1 DEF ReportsInv
<1>3. inserted \in [1..MaxPosts -> Nat]
  BY DEF ReportsInv
<1> HIDE DEF q
<1>4. /\ y \in Rep!Row
      /\ y.status = IF q.object.status = q.read.status THEN live.status ELSE q.object.status
  BY <1>2, MergedReport
<1> HIDE DEF y
<1>5. live.status = "killed" => live'.status = "killed"
  BY <1>1, <1>2, <1>4 DEF LeavesOrKills
<1>6. \A n \in 1..MaxPosts :
        /\ inserted'[n] \in Nat
        /\ inserted'[n] = inserted[n] \/ (inserted'[n] = inserted[n] + 1 /\ q.n = n)
  BY <1>1, <1>3
<1>7. inserted' \in [1..MaxPosts -> Nat]
  BY <1>1, <1>3, <1>6
<1>8. ReportsInv'
  BY <1>1, <1>4, <1>6, <1>7, HandlerEnds DEF q
<1> QED
  BY <1>5, <1>8

LEMMA ReportIsSent ==
  ASSUME ReportsInv, NEW kd \in Rep!Kinds, NEW from \in Rep!Peers, NEW loss \in 0..1,
         NEW open \in BOOLEAN, Rep!Send(kd, from, loss, open)
  PROVE  ReportsInv'
<1> DEFINE p == [n |-> Rep!Cardinality(posts) + 1, kind |-> kd, from |-> from, ts |-> time,
                 loss |-> loss, open |-> open]
<1>1. /\ Cardinality(posts) < MaxPosts /\ posts' = posts \cup {p}
      /\ UNCHANGED <<time, config, live, inserted, worker>>
  BY ReportConstants DEF Rep!Send
<1>2. Cardinality(posts) \in Nat /\ time \in 0..MaxReportTime
  BY FS_CardinalityType DEF ReportsInv
<1>3. p \in Rep!Post
  BY <1>1, <1>2, ReportConstants DEF Rep!Post, Rep!Times
<1> HIDE DEF p
<1>4. posts' \subseteq Rep!Post /\ IsFiniteSet(posts')
  BY <1>1, <1>3, FS_AddElement DEF ReportsInv
<1>5. \A n \in 1..MaxPosts : Rep!Copies(n)' <= MaxCopies
  BY <1>1 DEF ReportsInv, Rep!Copies
<1> QED
  BY <1>1, <1>4, <1>5 DEF ReportsInv

LEMMA ReportsStep ==
  ASSUME ReportsInv, [Next]_vars
  PROVE  ReportsInv' /\ (live.status = "killed" => live'.status = "killed")
<1> DEFINE Kept == ReportsInv' /\ (live.status = "killed" => live'.status = "killed")
<1>1. CASE UNCHANGED reports
  BY <1>1 DEF reports, ReportsInv, Rep!Copies
<1>2. ASSUME Rep!Tick PROVE Kept
  BY <1>2, ReportConstants DEF Rep!Tick, ReportsInv, Rep!Copies
<1>3. ASSUME NEW kd \in Rep!Kinds, NEW from \in Rep!Peers, NEW loss \in 0..1,
             NEW open \in BOOLEAN, Rep!Send(kd, from, loss, open)
      PROVE  Kept
  BY <1>3, ReportIsSent DEF Rep!Send
<1>4. ASSUME NEW w \in Handlers, NEW p \in posts, Rep!Receive(w, p) PROVE Kept
  BY <1>4, ReportArrives DEF Rep!Receive
<1>5. ASSUME NEW w \in Handlers, Rep!BeginKill(w) PROVE Kept
  BY <1>5, KillBegins DEF Rep!BeginKill
<1>6. ASSUME NEW w \in Handlers, Rep!Fails(w) PROVE Kept
  <2>1. worker' = [worker EXCEPT ![w] = Rep!Idle] /\ UNCHANGED <<time, config, live, inserted, posts>>
    BY <1>6 DEF Rep!Fails
  <2>2. live' \in Rep!Row /\ inserted' \in [1..MaxPosts -> Nat]
    BY <2>1 DEF ReportsInv
  <2> QED
    BY <2>1, <2>2, HandlerEnds
<1>7. ASSUME NEW w \in Handlers, Rep!Commit(w) PROVE Kept
  BY <1>7, ReportCommits
<1> QED
  BY <1>1, <1>2, <1>3, <1>4, <1>5, <1>6, <1>7, StepOfEach DEF Rep!Next

(* A handler that merges leaves the status as it read it, or kills.        *)
THEOREM ReportsInvariant == Spec => []ReportsInv
<1>1. Init => ReportsInv
  BY ReportsInvInit DEF Init
<1>2. ReportsInv /\ [Next]_vars => ReportsInv'
  BY ReportsStep
<1> QED
  BY <1>1, <1>2, PTL DEF Spec

-----------------------------------------------------------------------------
(* However the flushes of requests that read the same row interleave, the  *)
(* credentials that are stored open, an account once deleted stays         *)
(* deleted, and a report does not take back a kill.                        *)
THEOREM CommitsLeaveWhatOthersWrote == Spec => CommitsKeepOthersWrites
<1>1. AccountsInv => Accounts!CredentialsOpen
  <2> SUFFICES ASSUME AccountsInv, NEW a \in DOMAIN accounts
               PROVE  \E k \in Keys : Accounts!Opens(accounts[a], k)
    BY DEF Accounts!CredentialsOpen
  <2>1. /\ accounts[a].ciphertext \in Accounts!Encryptions \X Keys
        /\ accounts[a].ciphertext[1] = accounts[a].nonce
    BY DEF AccountsInv, Accounts!TypeOK, Accounts!Row, Sound
  <2> QED
    BY <2>1 DEF Accounts!Opens
<1>2. AccountsInv /\ [Next]_vars =>
        [\A a \in DOMAIN accounts : accounts[a].deleted => accounts'[a].deleted]_brokers
  BY AccountsStep
<1>3. ReportsInv /\ [Next]_vars => [live.status = "killed" => live'.status = "killed"]_reports
  BY ReportsStep
<1> QED
  BY <1>1, <1>2, <1>3, AccountsInvariant, ReportsInvariant, PTL
     DEF Spec, CommitsKeepOthersWrites, Accounts!DeletedStaysDeleted, Accounts!vars, brokers,
         Rep!ReportsKeepKill, Rep!vars, reports

-----------------------------------------------------------------------------
(* RateLimit: the key of a window.                                         *)

LEMMA LimitConstants ==
  /\ Free \in Nat /\ Pro \in Nat /\ Free <= Pro /\ Window \in Nat \ {0} /\ Grace \in Nat
  /\ Stall \in Nat /\ MaxWindows \in Nat \ {0} /\ Stall <= Grace /\ IsFiniteSet(Calls)
<1>1. Limit!IsFiniteSet(Calls) => IsFiniteSet(Calls)
  BY DEF Limit!IsFiniteSet, IsFiniteSet
<1> QED
  BY <1>1, BackendParameters DEF BackendParameters, Limit!Parameters

(* The window of a time.                                                   *)
LEMMA WindowOf ==
  ASSUME NEW t \in 0..Limit!MaxTime
  PROVE  /\ t \div Window \in Limit!Windows
         /\ (t \div Window) * Window <= t /\ t < (t \div Window) * Window + Window
<1> DEFINE q == t \div Window
<1>1. t \in Nat /\ t < Window * MaxWindows
  BY LimitConstants DEF Limit!MaxTime
<1>2. q \in Nat /\ q * Window <= t /\ t < q * Window + Window
  BY <1>1, LimitConstants
<1> HIDE DEF q
<1>3. q < MaxWindows
  <2> SUFFICES ASSUME q >= MaxWindows PROVE FALSE
    BY <1>2, LimitConstants
  <2>1. q * Window >= MaxWindows * Window
    BY <1>2, LimitConstants
  <2> QED
    BY <1>1, <1>2, <2>1, LimitConstants
<1>4. q \in Limit!Windows
  BY <1>2, <1>3, LimitConstants DEF Limit!Windows
<1> QED
  BY <1>2, <1>4 DEF q

(* What a request is doing.                                                *)
Asking == [pc : {"idle", "called", "counted"}, window : Limit!Windows,
           limit : {Free, Pro}, waited : 0..Stall, got : Nat]

Opens(w) == w * Window

(* From then on nobody counts on the key of w, and it may go.              *)
Over(w) == Opens(w) + Window + Grace

LEMMA WindowsOpen == \A w \in Limit!Windows : Opens(w) \in Nat /\ Over(w) \in Nat /\ w \in Nat
BY LimitConstants DEF Opens, Over, Limit!Windows

(* Requests that will be let through, and all that are or will be.         *)
Passing(w) ==
  {r \in Calls : req[r].pc = "counted" /\ req[r].window = w /\ req[r].got <= req[r].limit}

Quota(w) == passed[w] + Cardinality(Passing(w))

Best == IF plan = "pro" THEN Pro ELSE Free

(* Until its window is over a key counts all that are let through, and the *)
(* best limit bounds them; whoever has called is still in time.            *)
LimitInv ==
  /\ Limit!TypeOK
  /\ \A w \in Limit!Windows :
       /\ Quota(w) <= Best
       /\ clock < Over(w) => Quota(w) <= count[w]
       /\ expiry[w] # 0 => Over(w) <= expiry[w]
  /\ \A r \in Calls :
       /\ req[r].limit <= Best
       /\ req[r].pc = "called" =>
            /\ Opens(req[r].window) <= clock
            /\ clock < Opens(req[r].window) + Window + req[r].waited

LEMMA QuotaCounts ==
  ASSUME NEW w
  PROVE  /\ IsFiniteSet(Passing(w)) /\ Cardinality(Passing(w)) \in Nat
         /\ Quota(w) = passed[w] + Cardinality(Passing(w))
         /\ Quota(w)' = passed'[w] + Cardinality(Passing(w)')
<1>1. IsFiniteSet(Passing(w))
  BY LimitConstants, FS_Subset DEF Passing
<1> QED
  BY <1>1, FS_CardinalityType DEF Quota

LEMMA LimitInvInit == Limit!Init => LimitInv
<1> SUFFICES ASSUME Limit!Init PROVE LimitInv
  OBVIOUS
<1>1. /\ clock = 0 /\ plan = "free" /\ count = [w \in Limit!Windows |-> 0]
      /\ expiry = [w \in Limit!Windows |-> 0] /\ req = [r \in Calls |-> Limit!Idle]
      /\ passed = [w \in Limit!Windows |-> 0]
  BY DEF Limit!Init
<1>2. 0 \in Limit!Windows /\ 0 \in 0..Limit!MaxTime
  <2>1. Window * MaxWindows >= 1
    BY LimitConstants
  <2> QED
    BY <2>1, LimitConstants DEF Limit!Windows, Limit!MaxTime
<1>3. Limit!TypeOK
  BY <1>1, <1>2, LimitConstants DEF Limit!TypeOK, Limit!Idle
<1>4. ASSUME NEW w \in Limit!Windows PROVE Quota(w) = 0
  <2>1. Passing(w) = {}
    BY <1>1 DEF Passing, Limit!Idle
  <2> QED
    BY <1>1, <2>1, QuotaCounts, FS_EmptySet
<1>5. \A r \in Calls : req[r].limit = Free /\ req[r].pc = "idle"
  BY <1>1 DEF Limit!Idle
<1> QED
  BY <1>1, <1>3, <1>4, <1>5, LimitConstants DEF LimitInv, Best

(* A request turns to q, from or to what lets it through or not.           *)
LEMMA RequestTurns ==
  ASSUME LimitInv, NEW r \in Calls, NEW q, req' = [req EXCEPT ![r] = q],
         q \in Asking, NEW w
  PROVE  Passing(w)' = (Passing(w) \ {r})
           \cup (IF q.pc = "counted" /\ q.window = w /\ q.got <= q.limit THEN {r} ELSE {})
BY DEF LimitInv, Limit!TypeOK, Passing, Asking

LEMMA LimitCall ==
  ASSUME LimitInv, NEW r \in Calls, Limit!Call(r)
  PROVE  LimitInv'
<1>1. PICK limit \in Limit!LimitOf :
        req' = [req EXCEPT ![r] = [pc |-> "called", window |-> clock \div Window,
                                   limit |-> limit, waited |-> 0, got |-> 0]]
  BY DEF Limit!Call
<1> DEFINE q == [pc |-> "called", window |-> clock \div Window,
                 limit |-> limit, waited |-> 0, got |-> 0]
<1>2. /\ req[r].pc = "idle" /\ UNCHANGED <<clock, plan, count, expiry, passed>>
      /\ req' = [req EXCEPT ![r] = q]
  BY <1>1 DEF Limit!Call
<1>3. limit \in {Free, Pro} /\ limit <= Best
  BY LimitConstants DEF Limit!LimitOf, Best
<1>4. /\ clock \div Window \in Limit!Windows
      /\ Opens(clock \div Window) <= clock /\ clock < Opens(clock \div Window) + Window
  BY WindowOf DEF LimitInv, Limit!TypeOK, Opens
<1>5. q \in Asking
  BY <1>3, <1>4, LimitConstants DEF Asking
<1>6. /\ q.pc = "called" /\ q.limit <= Best /\ Opens(q.window) <= clock
      /\ clock < Opens(q.window) + Window + q.waited
  BY <1>3, <1>4, WindowsOpen, LimitConstants
<1> HIDE DEF q
<1>7. ASSUME NEW w PROVE Passing(w)' = Passing(w)
  <2>1. r \notin Passing(w)
    BY <1>2 DEF Passing
  <2>2. Passing(w)' = (Passing(w) \ {r})
          \cup (IF q.pc = "counted" /\ q.window = w /\ q.got <= q.limit THEN {r} ELSE {})
    BY <1>2, <1>5, RequestTurns
  <2> QED
    BY <1>6, <2>1, <2>2
<1>8. Limit!TypeOK'
  BY <1>2, <1>5 DEF LimitInv, Limit!TypeOK, Asking
<1>9. \A w \in Limit!Windows : Quota(w)' = Quota(w)
  BY <1>2, <1>7, QuotaCounts
<1>10. \A s \in Calls : req'[s] = IF s = r THEN q ELSE req[s]
  BY <1>2 DEF LimitInv, Limit!TypeOK
<1> QED
  BY <1>2, <1>6, <1>8, <1>9, <1>10 DEF LimitInv, Best

(* INCR: whether it lets the request through or not, its own count is the  *)
(* key's.                                                                  *)
LEMMA LimitCount ==
  ASSUME LimitInv, NEW r \in Calls, Limit!Count(r)
  PROVE  LimitInv'
<1>1. req[r] \in Asking /\ req[r].window \in Limit!Windows /\ count[req[r].window] \in Nat
  BY DEF LimitInv, Limit!TypeOK, Asking
<1>2. PICK x \in Asking, w \in Limit!Windows, c \in Nat :
        req[r] = x /\ x.window = w /\ count[w] = c
  BY <1>1
<1> DEFINE q == [pc |-> "counted", window |-> w, limit |-> x.limit, waited |-> 0, got |-> c + 1]
<1>3. /\ x.pc = "called" /\ count' = [count EXCEPT ![w] = c + 1]
      /\ expiry' = [expiry EXCEPT ![w] = IF c = 0 THEN Limit!Lives(w) ELSE @]
      /\ req' = [req EXCEPT ![r] = q]
      /\ UNCHANGED <<clock, plan, passed>>
  BY <1>2 DEF Limit!Count
<1>4. /\ q \in Asking /\ q.pc = "counted" /\ q.window = w /\ q.limit = x.limit /\ q.got = c + 1
  <2>1. w \in Limit!Windows /\ x.limit \in {Free, Pro} /\ 0 \in 0..Stall /\ c + 1 \in Nat
    BY <1>2, LimitConstants DEF Asking
  <2> QED
    BY <2>1 DEF Asking
<1> HIDE DEF q
<1>5. /\ expiry[w] \in Nat /\ passed[w] \in Nat /\ clock \in Nat
      /\ x.limit \in Nat /\ x.limit <= Best /\ x.waited \in 0..Stall
      /\ Opens(w) <= clock /\ clock < Opens(w) + Window + x.waited
  BY <1>2, <1>3, LimitConstants DEF LimitInv, Limit!TypeOK, Asking
<1>6. clock < Over(w) /\ Opens(w) \in Nat /\ Over(w) \in Nat
  <2>1. Opens(w) \in Nat /\ Over(w) \in Nat
    BY WindowsOpen
  <2> QED
    BY <1>5, <2>1, LimitConstants DEF Over
<1>7. Limit!Lives(w) \in Nat /\ Over(w) <= Limit!Lives(w)
  BY <1>5, <1>6, LimitConstants DEF Limit!Lives, Over
<1>8. Best \in Nat /\ Best' = Best
  BY <1>3, LimitConstants DEF Best
<1>9. ASSUME NEW v PROVE Passing(v)' = (Passing(v) \ {r})
        \cup (IF q.pc = "counted" /\ q.window = v /\ q.got <= q.limit THEN {r} ELSE {})
  BY <1>3, <1>4, RequestTurns
<1>10. ASSUME NEW v PROVE r \notin Passing(v)
  BY <1>2, <1>3 DEF Passing
<1>11. Quota(w)' <= Best /\ Quota(w)' <= c + 1 /\ Quota(w)' \in Nat
  <2>1. Quota(w) <= Best /\ Quota(w) <= c /\ Quota(w) \in Nat
    BY <1>2, <1>5, <1>6, QuotaCounts DEF LimitInv
  <2>2. CASE c + 1 <= x.limit
    <3>1. Passing(w)' = Passing(w) \cup {r}
      BY <1>4, <1>9, <1>10, <2>2
    <3>2. Cardinality(Passing(w)') = Cardinality(Passing(w)) + 1
      BY <1>10, <3>1, QuotaCounts, FS_AddElement
    <3>3. Quota(w)' = Quota(w) + 1
      BY <1>3, <1>5, <3>2, QuotaCounts
    <3> QED
      BY <1>2, <1>5, <1>8, <2>1, <2>2, <3>3
  <2>3. CASE ~(c + 1 <= x.limit)
    <3>1. Passing(w)' = Passing(w)
      BY <1>4, <1>9, <1>10, <2>3
    <3>2. Quota(w)' = Quota(w)
      BY <1>3, <3>1, QuotaCounts
    <3> QED
      BY <1>2, <2>1, <3>2
  <2> QED
    BY <2>2, <2>3
<1>12. ASSUME NEW v \in Limit!Windows, v # w PROVE Quota(v)' = Quota(v)
  <2>1. Passing(v)' = Passing(v)
    BY <1>4, <1>9, <1>10, <1>12
  <2> QED
    BY <1>3, <2>1, QuotaCounts
<1>13. /\ count \in [Limit!Windows -> Nat] /\ expiry \in [Limit!Windows -> Nat]
       /\ req \in [Calls -> Asking]
  BY DEF LimitInv, Limit!TypeOK, Asking
<1>14. /\ \A v \in Limit!Windows : count'[v] = IF v = w THEN c + 1 ELSE count[v]
       /\ \A v \in Limit!Windows :
            expiry'[v] = expiry[v] \/ (v = w /\ expiry'[v] = Limit!Lives(w))
       /\ \A s \in Calls : req'[s] = IF s = r THEN q ELSE req[s]
  BY <1>3, <1>13
<1>15. Limit!TypeOK'
  <2>1. count' \in [Limit!Windows -> Nat] /\ expiry' \in [Limit!Windows -> Nat]
    BY <1>2, <1>3, <1>7, <1>13
  <2>2. req' \in [Calls -> Asking]
    BY <1>3, <1>4, <1>13
  <2> QED
    BY <1>3, <2>1, <2>2 DEF LimitInv, Limit!TypeOK, Asking
<1>16. ASSUME NEW v \in Limit!Windows
       PROVE  /\ Quota(v)' <= Best
              /\ clock < Over(v) => Quota(v)' <= count'[v]
              /\ expiry'[v] # 0 => Over(v) <= expiry'[v]
  <2>1. /\ Quota(v) <= Best
        /\ clock < Over(v) => Quota(v) <= count[v]
        /\ expiry[v] # 0 => Over(v) <= expiry[v]
    BY DEF LimitInv
  <2>2. expiry'[v] # 0 => Over(v) <= expiry'[v]
    BY <1>7, <1>14, <2>1
  <2>3. CASE v = w
    BY <1>11, <1>14, <2>2, <2>3
  <2>4. CASE v # w
    BY <1>12, <1>14, <2>1, <2>2, <2>4
  <2> QED
    BY <2>3, <2>4
<1>17. ASSUME NEW s \in Calls
       PROVE  /\ req'[s].limit <= Best
              /\ req'[s].pc = "called" =>
                   /\ Opens(req'[s].window) <= clock
                   /\ clock < Opens(req'[s].window) + Window + req'[s].waited
  BY <1>4, <1>5, <1>14 DEF LimitInv
<1> QED
  BY <1>3, <1>8, <1>15, <1>16, <1>17 DEF LimitInv

(* A failure lets the request through uncounted here, and at most counts   *)
(* too much.                                                               *)
LEMMA LimitCountFails ==
  ASSUME LimitInv, NEW r \in Calls, Limit!CountFails(r)
  PROVE  LimitInv'
<1>1. req[r] \in Asking /\ req[r].window \in Limit!Windows /\ count[req[r].window] \in Nat
  BY DEF LimitInv, Limit!TypeOK, Asking
<1>2. PICK w \in Limit!Windows, c \in Nat : req[r].window = w /\ count[w] = c
  BY <1>1
<1>3. /\ req[r].pc = "called" /\ req' = [req EXCEPT ![r] = Limit!Idle]
      /\ count' = count \/ count' = [count EXCEPT ![w] = c + 1]
      /\ UNCHANGED <<clock, plan, expiry, passed>>
  BY <1>2 DEF Limit!CountFails
<1>4. Limit!Idle \in Asking /\ Limit!Idle.pc = "idle" /\ Limit!Idle.limit = Free
  BY LimitConstants DEF Limit!Idle, Asking, Limit!Windows
<1>5. /\ count' \in [Limit!Windows -> Nat]
      /\ \A v \in Limit!Windows : count[v] <= count'[v]
  BY <1>2, <1>3 DEF LimitInv, Limit!TypeOK
<1>6. ASSUME NEW v PROVE Passing(v)' = Passing(v)
  <2>1. Passing(v)' = (Passing(v) \ {r})
          \cup (IF Limit!Idle.pc = "counted" /\ Limit!Idle.window = v /\ Limit!Idle.got <= Limit!Idle.limit
                  THEN {r} ELSE {})
    BY <1>3, <1>4, RequestTurns
  <2>2. r \notin Passing(v)
    BY <1>3 DEF Passing
  <2> QED
    BY <1>4, <2>1, <2>2
<1>7. \A v \in Limit!Windows : Quota(v)' = Quota(v)
  BY <1>3, <1>6, QuotaCounts
<1>8. \A s \in Calls : req'[s] = IF s = r THEN Limit!Idle ELSE req[s]
  BY <1>3 DEF LimitInv, Limit!TypeOK
<1>9. Limit!TypeOK'
  BY <1>3, <1>4, <1>5 DEF LimitInv, Limit!TypeOK, Asking
<1>10. ASSUME NEW v \in Limit!Windows
       PROVE  /\ Quota(v)' <= Best
              /\ clock < Over(v) => Quota(v)' <= count'[v]
              /\ expiry'[v] # 0 => Over(v) <= expiry'[v]
  <2>1. /\ Quota(v) \in Nat /\ count[v] \in Nat /\ count'[v] \in Nat /\ count[v] <= count'[v]
    <3>1. passed[v] \in Nat /\ count[v] \in Nat
      BY DEF LimitInv, Limit!TypeOK
    <3> QED
      BY <1>5, <3>1, QuotaCounts
  <2> QED
    BY <1>3, <1>7, <2>1 DEF LimitInv
<1>11. Best' = Best /\ Free <= Best
  BY <1>3, LimitConstants DEF Best
<1>12. ASSUME NEW s \in Calls
       PROVE  /\ req'[s].limit <= Best
              /\ req'[s].pc = "called" =>
                   /\ Opens(req'[s].window) <= clock
                   /\ clock < Opens(req'[s].window) + Window + req'[s].waited
  BY <1>4, <1>8, <1>11 DEF LimitInv
<1> QED
  BY <1>3, <1>9, <1>10, <1>11, <1>12 DEF LimitInv

LEMMA LimitDecide ==
  ASSUME LimitInv, NEW r \in Calls, Limit!Decide(r)
  PROVE  LimitInv'
<1>1. req[r] \in Asking /\ req[r].window \in Limit!Windows /\ passed[req[r].window] \in Nat
  BY DEF LimitInv, Limit!TypeOK, Asking
<1>2. PICK x \in Asking, w \in Limit!Windows, n \in Nat :
        req[r] = x /\ x.window = w /\ passed[w] = n
  BY <1>1
<1>3. /\ x.pc = "counted" /\ req' = [req EXCEPT ![r] = Limit!Idle]
      /\ passed' = IF x.got > x.limit THEN passed ELSE [passed EXCEPT ![w] = n + 1]
      /\ UNCHANGED <<clock, plan, count, expiry>>
  BY <1>2 DEF Limit!Decide
<1>4. Limit!Idle \in Asking /\ Limit!Idle.pc = "idle" /\ Limit!Idle.limit = Free
  BY LimitConstants DEF Limit!Idle, Asking, Limit!Windows
<1>5. passed \in [Limit!Windows -> Nat] /\ x.got \in Nat /\ x.limit \in Nat
  BY LimitConstants DEF LimitInv, Limit!TypeOK, Asking
<1>6. ASSUME NEW v PROVE Passing(v)' = Passing(v) \ {r}
  <2>1. Passing(v)' = (Passing(v) \ {r})
          \cup (IF Limit!Idle.pc = "counted" /\ Limit!Idle.window = v /\ Limit!Idle.got <= Limit!Idle.limit
                  THEN {r} ELSE {})
    BY <1>3, <1>4, RequestTurns
  <2> QED
    BY <1>4, <2>1
<1>7. ASSUME NEW v \in Limit!Windows PROVE Quota(v)' = Quota(v)
  <2>1. CASE v = w /\ x.got <= x.limit
    <3>1. r \in Passing(v)
      BY <1>2, <1>3, <2>1 DEF Passing
    <3>2. Cardinality(Passing(v)') = Cardinality(Passing(v)) - 1
      BY <1>6, <3>1, QuotaCounts, FS_RemoveElement
    <3>3. passed'[v] = n + 1 /\ passed[v] = n
      BY <1>2, <1>3, <1>5, <2>1
    <3>4. /\ Quota(v) = n + Cardinality(Passing(v))
          /\ Quota(v)' = (n + 1) + (Cardinality(Passing(v)) - 1)
          /\ Cardinality(Passing(v)) \in Nat
      BY <3>2, <3>3, QuotaCounts
    <3> QED
      BY <1>2, <3>4
  <2>2. CASE v # w \/ ~(x.got <= x.limit)
    <3>1. r \notin Passing(v)
      BY <1>2, <2>2 DEF Passing
    <3>2. Passing(v)' = Passing(v)
      BY <1>6, <3>1
    <3>3. passed'[v] = passed[v]
      BY <1>3, <1>5, <2>2
    <3> QED
      BY <3>2, <3>3, QuotaCounts
  <2> QED
    BY <2>1, <2>2
<1>8. \A s \in Calls : req'[s] = IF s = r THEN Limit!Idle ELSE req[s]
  BY <1>3 DEF LimitInv, Limit!TypeOK
<1>9. passed' \in [Limit!Windows -> Nat]
  BY <1>2, <1>3, <1>5
<1>10. Limit!TypeOK'
  BY <1>3, <1>4, <1>9 DEF LimitInv, Limit!TypeOK, Asking
<1>11. Best' = Best /\ Free <= Best
  BY <1>3, LimitConstants DEF Best
<1>12. ASSUME NEW s \in Calls
       PROVE  /\ req'[s].limit <= Best
              /\ req'[s].pc = "called" =>
                   /\ Opens(req'[s].window) <= clock
                   /\ clock < Opens(req'[s].window) + Window + req'[s].waited
  BY <1>4, <1>8, <1>11 DEF LimitInv
<1> QED
  BY <1>3, <1>7, <1>10, <1>11, <1>12 DEF LimitInv

(* Time passes; a key that goes counts for nobody any more.                *)
LEMMA LimitTick ==
  ASSUME LimitInv, Limit!Tick
  PROVE  LimitInv'
<1> DEFINE over == {w \in Limit!Windows : expiry[w] # 0 /\ expiry[w] <= clock + 1}
<1>1. /\ clock < Limit!MaxTime /\ clock' = clock + 1 /\ UNCHANGED <<plan, passed>>
      /\ \A r \in Calls : req[r].pc = "called" => req[r].waited < Stall
      /\ req' = [r \in Calls |->
                   IF req[r].pc = "called" THEN [req[r] EXCEPT !.waited = @ + 1] ELSE req[r]]
      /\ count' = [w \in Limit!Windows |-> IF w \in over THEN 0 ELSE count[w]]
      /\ expiry' = [w \in Limit!Windows |-> IF w \in over THEN 0 ELSE expiry[w]]
  BY DEF Limit!Tick
<1>2. /\ clock \in 0..Limit!MaxTime /\ count \in [Limit!Windows -> Nat]
      /\ expiry \in [Limit!Windows -> Nat] /\ req \in [Calls -> Asking]
  BY DEF LimitInv, Limit!TypeOK, Asking
<1>3. clock \in Nat /\ clock' \in Nat /\ clock' \in 0..Limit!MaxTime
  <2>1. Window * MaxWindows \in Int
    BY LimitConstants
  <2> QED
    BY <1>1, <1>2, <2>1 DEF Limit!MaxTime
<1>4. ASSUME NEW r \in Calls
      PROVE  /\ req'[r] \in Asking /\ req'[r].pc = req[r].pc /\ req'[r].window = req[r].window
             /\ req'[r].limit = req[r].limit /\ req'[r].got = req[r].got
             /\ req[r].pc = "called" => req'[r].waited = req[r].waited + 1
  <2>1. req[r] \in Asking
    BY <1>2
  <2>2. CASE req[r].pc = "called"
    <3>1. req[r].waited < Stall /\ req'[r] = [req[r] EXCEPT !.waited = @ + 1]
      BY <1>1, <2>2
    <3>2. req[r].waited + 1 \in 0..Stall
      BY <2>1, <3>1, LimitConstants DEF Asking
    <3> QED
      BY <2>1, <3>1, <3>2 DEF Asking
  <2>3. CASE req[r].pc # "called"
    BY <1>1, <2>1, <2>3
  <2> QED
    BY <2>2, <2>3
<1>5. ASSUME NEW w \in Limit!Windows PROVE Quota(w)' = Quota(w)
  <2>1. Passing(w)' = Passing(w)
    BY <1>4 DEF Passing
  <2> QED
    BY <1>1, <2>1, QuotaCounts
<1>6. Best' = Best
  BY <1>1 DEF Best
<1>7. ASSUME NEW w \in Limit!Windows
      PROVE  /\ clock' < Over(w) => Quota(w)' <= count'[w]
             /\ expiry'[w] # 0 => Over(w) <= expiry'[w]
  <2>1. /\ clock < Over(w) => Quota(w) <= count[w]
        /\ expiry[w] # 0 => Over(w) <= expiry[w]
        /\ Over(w) \in Nat /\ expiry[w] \in Nat
    BY <1>2, WindowsOpen DEF LimitInv
  <2>2. CASE w \in over
    BY <1>1, <1>2, <1>3, <2>1, <2>2
  <2>3. CASE w \notin over
    BY <1>1, <1>2, <1>3, <1>5, <2>1, <2>3
  <2> QED
    BY <2>2, <2>3
<1>8. ASSUME NEW r \in Calls
      PROVE  /\ req'[r].limit <= Best
             /\ req'[r].pc = "called" =>
                  /\ Opens(req'[r].window) <= clock'
                  /\ clock' < Opens(req'[r].window) + Window + req'[r].waited
  <2>1. req[r].limit <= Best /\ req[r].window \in Limit!Windows /\ req[r].waited \in Nat
    BY <1>2, LimitConstants DEF LimitInv, Asking
  <2>2. Opens(req[r].window) \in Nat
    BY <2>1, WindowsOpen
  <2>3. ASSUME req[r].pc = "called"
        PROVE  /\ Opens(req[r].window) <= clock
               /\ clock < Opens(req[r].window) + Window + req[r].waited
               /\ req'[r].waited = req[r].waited + 1 /\ req'[r].window = req[r].window
    BY <1>4, <2>3 DEF LimitInv
  <2> QED
    BY <1>1, <1>3, <1>4, <2>1, <2>2, <2>3, LimitConstants
<1>9. Limit!TypeOK'
  <2>1. count' \in [Limit!Windows -> Nat] /\ expiry' \in [Limit!Windows -> Nat]
    BY <1>1, <1>2
  <2>2. req' \in [Calls -> Asking]
    BY <1>1, <1>4
  <2> QED
    BY <1>1, <1>3, <2>1, <2>2 DEF LimitInv, Limit!TypeOK, Asking
<1> QED
  BY <1>5, <1>6, <1>7, <1>8, <1>9 DEF LimitInv

LEMMA LimitUpgrade ==
  ASSUME LimitInv, Limit!Upgrade
  PROVE  LimitInv'
<1>1. /\ plan = "free" /\ plan' = "pro" /\ UNCHANGED <<clock, count, expiry, req, passed>>
  BY DEF Limit!Upgrade
<1>2. Best = Free /\ Best' = Pro
  BY <1>1 DEF Best
<1>3. ASSUME NEW w \in Limit!Windows PROVE Quota(w)' = Quota(w) /\ Quota(w) \in Nat
  <2>1. Passing(w)' = Passing(w) /\ passed[w] \in Nat
    BY <1>1 DEF Passing, LimitInv, Limit!TypeOK
  <2> QED
    BY <1>1, <2>1, QuotaCounts
<1>4. \A r \in Calls : req[r].limit \in Nat
  BY LimitConstants DEF LimitInv, Limit!TypeOK
<1>5. Limit!TypeOK'
  BY <1>1 DEF LimitInv, Limit!TypeOK
<1>6. \A w \in Limit!Windows : Quota(w)' <= Pro
  BY <1>2, <1>3, LimitConstants DEF LimitInv
<1>7. \A r \in Calls : req[r].limit <= Pro
  BY <1>2, <1>4, LimitConstants DEF LimitInv
<1> QED
  BY <1>1, <1>2, <1>3, <1>5, <1>6, <1>7 DEF LimitInv

LEMMA LimitStep == LimitInv /\ [Next]_vars => LimitInv'
<1> SUFFICES ASSUME LimitInv, [Next]_vars PROVE LimitInv'
  OBVIOUS
<1>1. CASE UNCHANGED limiter
  BY <1>1 DEF limiter, LimitInv, Limit!TypeOK, Quota, Passing, Best
<1> QED
  BY <1>1, LimitCall, LimitCount, LimitCountFails, LimitDecide, LimitTick, LimitUpgrade,
     StepOfEach DEF Limit!Next

(* Until a window is over its key counts all that are let through, and no  *)
(* more than the best limit are.                                           *)
THEOREM LimitInvariant == Spec => []LimitInv
<1>1. Init => LimitInv
  BY LimitInvInit DEF Init
<1> QED
  BY <1>1, LimitStep, PTL DEF Spec

(* For every number of requests at once, of windows and of ticks that a    *)
(* request may stall, up to the time a key outlives its window.            *)
THEOREM WindowsKeepTheLimit == Spec => []LimitIsKept
<1>1. LimitInv => LimitIsKept
  <2> SUFFICES ASSUME LimitInv, NEW w \in Limit!Windows PROVE passed[w] <= Best
    BY DEF LimitIsKept, Limit!LimitIsKept, Best
  <2>1. Quota(w) <= Best /\ passed[w] \in Nat /\ Best \in Nat
    BY LimitConstants DEF LimitInv, Limit!TypeOK, Best
  <2> QED
    BY <2>1, QuotaCounts
<1> QED
  BY <1>1, LimitInvariant, PTL
-----------------------------------------------------------------------------
(* The types of all.                                                       *)

LEMMA BillingIsTyped == BillInv /\ OrderInv => Bill!TypeOK
<1> SUFFICES ASSUME BillInv, OrderInv PROVE Bill!TypeOK
  OBVIOUS
<1>1. applied \in [1..MaxEvents -> 0..2]
  BY DEF BillInv, EachEventOnce, Bill!EachEventOnce
<1>2. seen \subseteq 1..MaxEvents
  BY BillConstants DEF OrderInv, BillTypes
<1>3. ASSUME NEW w \in EventWorkers
      PROVE  /\ handler[w].pc \in {"idle", "read"}
             /\ handler[w].kind \in Bill!Kinds \cup Bill!CallKinds \cup {"none"}
             /\ handler[w].event \in 0..MaxEvents /\ handler[w].target \in 0..MaxRows
  <2>1. handler[w] \in Turn /\ Len(rows) \in Nat /\ Len(rows) <= MaxRows
    BY DEF OrderInv, BillTypes
  <2>2. /\ Len(handler[w].read) \in Nat /\ handler[w].target \in Nat
        /\ Len(handler[w].read) <= Len(rows) /\ handler[w].target <= Len(handler[w].read)
    BY <2>1 DEF OrderInv, BillTypes, Turn
  <2>3. handler[w].target \in 0..MaxRows
    BY <2>1, <2>2, BillConstants
  <2> QED
    BY <2>1, <2>3 DEF Turn
<1> QED
  BY <1>1, <1>2, <1>3 DEF OrderInv, BillTypes, Bill!TypeOK

LEMMA ReportsAreTyped == ReportsInv => Rep!TypeOK
<1> SUFFICES ASSUME ReportsInv PROVE Rep!TypeOK
  OBVIOUS
<1>1. \A n \in 1..MaxPosts : inserted[n] \in 0..MaxCopies
  <2> TAKE n \in 1..MaxPosts
  <2>1. inserted[n] \in Nat /\ Rep!Copies(n) <= MaxCopies
    BY DEF ReportsInv
  <2> QED
    BY <2>1, CopiesCount, ReportConstants
<1>2. inserted \in [1..MaxPosts -> 0..MaxCopies]
  BY <1>1 DEF ReportsInv
<1> QED
  BY <1>2 DEF ReportsInv, Rep!TypeOK, Rep!Times

(* Every component keeps its types.                                        *)
THEOREM TypesHold == Spec => []TypeOK
<1>1. Init => BillInv
  BY BillInvInit DEF Init
<1>2. /\ BillInv /\ OrderInv /\ ReportsInv /\ AuthInv /\ AdminInv /\ GateInv
      /\ MailInv /\ AccountsInv /\ LimitInv
      => TypeOK
  BY BillingIsTyped, ReportsAreTyped, AuthInvTypes
     DEF TypeOK, AdminInv, GateInv, MailInv, AccountsInv, LimitInv
<1> QED
  BY <1>1, <1>2, BillInvNext, OrderInvariant, ReportsInvariant, AuthInvariant,
     AdminInvariant, GateInvariant, MailInvariant, AccountsInvariant, LimitInvariant, PTL DEF Spec
=============================================================================
