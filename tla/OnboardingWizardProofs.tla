------------------------ MODULE OnboardingWizardProofs ------------------------
(***************************************************************************)
(* Theorems about OnboardingWizard for any requests, deployments and stops *)
(* of Caddy.                                                               *)
(***************************************************************************)
EXTENDS OnboardingWizard, TLAPS

USE OnboardingWizardAssumption, OnboardingFilesAssumption

Places == {"idle", "save", "probe", "lock", "prepare", "guard", "takeover", "load", "commit", "fail",
           "inspect", "replace", "restart", "poll", "restore", "again"}
Commands == {None, "reset", "location", "mode", "preflight", "execute", "enable", "broken"}

TypeInv ==
    /\ db \in [row : Row, settings : {"default", "wizard"}, sites : BOOLEAN, snapshot : BOOLEAN]
    /\ file \in Content /\ backups \subseteq Content
    /\ caddy \in [up : BOOLEAN, runs : Content]
    /\ sess \in [Client -> SessionState]
    /\ deploy \in [pc : {"idle", "write", "load"}, sites : BOOLEAN, prev : Content]
    /\ original \in Own \cup {Absent}
    /\ accounted \in BOOLEAN /\ uncovered \in BOOLEAN

\* The operation guard has one holder, and a takeover keeps the write lock.
LockInv ==
    /\ \A c \in Client :
         /\ guard = c <=> sess[c].pc \in {"takeover", "load"}
         /\ sess[c].pc \in {"prepare", "guard", "takeover", "load", "commit"} => dbLock = c
    /\ guard = "deploy" <=> deploy.pc # "idle"

\* Who is about to restore the file knows what it was.
Edited == \A c \in Client : sess[c].pc \in {"restart", "poll", "restore", "again"} => sess[c].was # None

\* What request c is after a step, the others being what they were.
Now(c, p, m, r, w, q, i) ==
    /\ sess'[c].pc = p /\ sess'[c].cmd = m /\ sess'[c].row = r
    /\ sess'[c].was = w /\ sess'[c].prev = q /\ sess'[c].imports = i
    /\ \A d \in Client : d # c => sess'[d] = sess[d]
    /\ DOMAIN sess' = Client

LEMMA BecomesNow ==
    ASSUME TypeInv, NEW c \in Client, NEW y \in SessionState, sess' = [sess EXCEPT ![c] = y]
    PROVE  /\ Now(c, y.pc, y.cmd, y.row, y.was, y.prev, y.imports)
           /\ sess' \in [Client -> SessionState]
<1>1. sess \in [Client -> SessionState]
  BY DEF TypeInv
<1> HIDE DEF SessionState
<1> QED BY <1>1 DEF Now

\* A session has the fields of one.
LEMMA Fields ==
    ASSUME TypeInv, NEW c \in Client
    PROVE  /\ sess[c] \in SessionState
           /\ sess[c].pc \in Places /\ sess[c].cmd \in Commands /\ sess[c].row \in Row
           /\ sess[c].was \in Content \cup {None} /\ sess[c].prev \in Content
           /\ sess[c].imports \in BOOLEAN
<1>1. sess[c] \in SessionState
  BY DEF TypeInv
<1> HIDE DEF Row, Content
<1> QED BY <1>1 DEF SessionState, Places, Commands

LEMMA Values ==
    /\ FreshRow \in Row /\ ~FreshRow.lost /\ Absent \in Content /\ Starter \in Content
    /\ \A b \in BOOLEAN : Managed(b) \in Content
    /\ Idle \in SessionState /\ Idle.pc = "idle" /\ Idle.cmd = None /\ Idle.row = FreshRow
    /\ Idle.was = None /\ Idle.prev = Absent /\ Idle.imports = FALSE
<1>1. FreshRow \in Row /\ ~FreshRow.lost /\ Absent \in Content /\ Starter \in Content
  BY DEF FreshRow, Row, Absent, Content, Starter
<1>2. \A b \in BOOLEAN : Managed(b) \in Content
  BY DEF Managed, Content
<1>3. /\ Idle.pc = "idle" /\ Idle.cmd = None /\ Idle.row = FreshRow
      /\ Idle.was = None /\ Idle.prev = Absent /\ Idle.imports = FALSE
  BY DEF Idle
<1>4. Idle \in SessionState
  <2> HIDE DEF Row, FreshRow, Content, Absent
  <2> QED BY <1>1 DEF Idle, SessionState
<1> QED BY <1>1, <1>2, <1>3, <1>4

LEMMA GotoNow ==
    ASSUME TypeInv, NEW c \in Client, NEW p \in Places, Goto(c, p)
    PROVE  /\ Now(c, p, sess[c].cmd, sess[c].row, sess[c].was, sess[c].prev, sess[c].imports)
           /\ sess' \in [Client -> SessionState]
<1> DEFINE y == [sess[c] EXCEPT !.pc = p]
<1> HIDE DEF Row, Content
<1>1. /\ y \in SessionState /\ y.pc = p /\ y.cmd = sess[c].cmd /\ y.row = sess[c].row
      /\ y.was = sess[c].was /\ y.prev = sess[c].prev /\ y.imports = sess[c].imports
  BY Fields DEF SessionState, Places, Commands
<1>2. sess' = [sess EXCEPT ![c] = y]
  BY DEF Goto
<1> HIDE DEF y, SessionState
<1>3. /\ Now(c, y.pc, y.cmd, y.row, y.was, y.prev, y.imports)
      /\ sess' \in [Client -> SessionState]
  BY <1>1, <1>2, BecomesNow
<1> QED BY <1>1, <1>3

LEMMA DoneNow ==
    ASSUME TypeInv, NEW c \in Client, Done(c)
    PROVE  /\ Now(c, "idle", None, FreshRow, None, Absent, FALSE)
           /\ sess' \in [Client -> SessionState]
<1>1. sess' = [sess EXCEPT ![c] = Idle]
  BY DEF Done
<1> HIDE DEF Idle, SessionState
<1>2. /\ Now(c, Idle.pc, Idle.cmd, Idle.row, Idle.was, Idle.prev, Idle.imports)
      /\ sess' \in [Client -> SessionState]
  BY <1>1, Values, BecomesNow
<1> HIDE DEF FreshRow, Absent
<1> QED BY <1>2, Values

LEMMA AskNow ==
    ASSUME TypeInv, NEW c \in Client, NEW m \in Commands, NEW p \in Places, NEW r \in Row, Ask(c, m, p, r)
    PROVE  /\ Now(c, p, m, r, None, Absent, FALSE)
           /\ sess' \in [Client -> SessionState]
<1> DEFINE x == [Idle EXCEPT !.pc = p]
           y == [x EXCEPT !.cmd = m]
           z == [y EXCEPT !.row = r]
<1>1. /\ x \in SessionState /\ x.pc = p /\ x.was = None /\ x.prev = Absent /\ x.imports = FALSE
  BY Values DEF SessionState, Places, Commands
<1> HIDE DEF x
<1>2. /\ y \in SessionState /\ y.pc = p /\ y.cmd = m /\ y.was = None /\ y.prev = Absent
      /\ y.imports = FALSE
  BY <1>1 DEF SessionState, Places, Commands
<1> HIDE DEF y
<1>3. /\ z \in SessionState /\ z.pc = p /\ z.cmd = m /\ z.row = r /\ z.was = None /\ z.prev = Absent
      /\ z.imports = FALSE
  BY <1>2 DEF SessionState, Places, Commands
<1>4. sess' = [sess EXCEPT ![c] = z]
  BY DEF Ask, x, y
<1> HIDE DEF z, SessionState, Absent
<1>5. /\ Now(c, z.pc, z.cmd, z.row, z.was, z.prev, z.imports)
      /\ sess' \in [Client -> SessionState]
  BY <1>3, <1>4, BecomesNow
<1> QED BY <1>3, <1>5

LEMMA RowEdits ==
    ASSUME NEW r \in Row, NEW b \in Content \cup {None}
    PROVE  /\ [r EXCEPT !.backup = b] \in Row /\ [r EXCEPT !.backup = b].lost = r.lost
           /\ [r EXCEPT !.backup = b].backup = b
           /\ \A x \in BOOLEAN : LET y == Checked(r, x) IN y \in Row /\ y.lost = FALSE
           /\ Completed(r) \in Row /\ Completed(r).lost = r.lost /\ Completed(r).backup = r.backup
           /\ \A l \in BOOLEAN : LET y == FailedRow(r, l, b)
                                 IN  y \in Row /\ y.lost = l /\ y.backup = b
<1> HIDE DEF Content
<1> QED BY DEF Row, Checked, Completed, FailedRow

LEMMA LossRow ==
    ASSUME NEW r \in Row, NEW w \in Content \cup {None}
    PROVE  /\ Loss(r, w) \in Row /\ Loss(r, w).lost = TRUE
           /\ w # Absent => Loss(r, w).backup = w
<1> DEFINE b == IF w = Absent THEN None ELSE w
<1>1. b \in Content \cup {None}
  OBVIOUS
<1> HIDE DEF b, Content
<1>2. [r EXCEPT !.lost = TRUE, !.backup = b] \in Row
  BY <1>1 DEF Row
<1>3. [r EXCEPT !.lost = TRUE, !.backup = b].lost = TRUE /\ [r EXCEPT !.lost = TRUE, !.backup = b].backup = b
  BY DEF Row
<1> QED BY <1>2, <1>3 DEF Loss, b

\* The steps that change more of a session than its place.
LEMMA PlaceCmdNow ==
    ASSUME TypeInv, NEW c \in Client, NEW p \in Places, NEW m \in Commands,
           sess' = [sess EXCEPT ![c].pc = p, ![c].cmd = m]
    PROVE  /\ Now(c, p, m, sess[c].row, sess[c].was, sess[c].prev, sess[c].imports)
           /\ sess' \in [Client -> SessionState]
<1> DEFINE x == [sess[c] EXCEPT !.pc = p]
           y == [x EXCEPT !.cmd = m]
<1> HIDE DEF Row, Content
<1>1. sess' = [sess EXCEPT ![c] = y]
  BY DEF TypeInv, SessionState
<1>2. /\ x \in SessionState /\ x.pc = p /\ x.cmd = sess[c].cmd /\ x.row = sess[c].row
      /\ x.was = sess[c].was /\ x.prev = sess[c].prev /\ x.imports = sess[c].imports
  BY Fields DEF SessionState, Places, Commands
<1> HIDE DEF x
<1>3. /\ y \in SessionState /\ y.pc = p /\ y.cmd = m /\ y.row = sess[c].row
      /\ y.was = sess[c].was /\ y.prev = sess[c].prev /\ y.imports = sess[c].imports
  BY <1>2 DEF SessionState, Places, Commands
<1> HIDE DEF y
<1> HIDE DEF SessionState
<1>4. /\ Now(c, y.pc, y.cmd, y.row, y.was, y.prev, y.imports)
      /\ sess' \in [Client -> SessionState]
  BY <1>1, <1>3, BecomesNow
<1> QED BY <1>3, <1>4

LEMMA PlacePrevNow ==
    ASSUME TypeInv, NEW c \in Client, NEW p \in Places, NEW q \in Content,
           sess' = [sess EXCEPT ![c].pc = p, ![c].prev = q]
    PROVE  /\ Now(c, p, sess[c].cmd, sess[c].row, sess[c].was, q, sess[c].imports)
           /\ sess' \in [Client -> SessionState]
<1> DEFINE x == [sess[c] EXCEPT !.pc = p]
           y == [x EXCEPT !.prev = q]
<1> HIDE DEF Row, Content
<1>1. sess' = [sess EXCEPT ![c] = y]
  BY DEF TypeInv, SessionState
<1>2. /\ x \in SessionState /\ x.pc = p /\ x.cmd = sess[c].cmd /\ x.row = sess[c].row
      /\ x.was = sess[c].was /\ x.prev = sess[c].prev /\ x.imports = sess[c].imports
  BY Fields DEF SessionState, Places, Commands
<1> HIDE DEF x
<1>3. /\ y \in SessionState /\ y.pc = p /\ y.cmd = sess[c].cmd /\ y.row = sess[c].row
      /\ y.was = sess[c].was /\ y.prev = q /\ y.imports = sess[c].imports
  BY <1>2 DEF SessionState, Places, Commands
<1> HIDE DEF y
<1> HIDE DEF SessionState
<1>4. /\ Now(c, y.pc, y.cmd, y.row, y.was, y.prev, y.imports)
      /\ sess' \in [Client -> SessionState]
  BY <1>1, <1>3, BecomesNow
<1> QED BY <1>3, <1>4

LEMMA PlaceWasNow ==
    ASSUME TypeInv, NEW c \in Client, NEW p \in Places, NEW w \in Content,
           sess' = [sess EXCEPT ![c].pc = p, ![c].was = w]
    PROVE  /\ Now(c, p, sess[c].cmd, sess[c].row, w, sess[c].prev, sess[c].imports)
           /\ sess' \in [Client -> SessionState]
<1> DEFINE x == [sess[c] EXCEPT !.pc = p]
           y == [x EXCEPT !.was = w]
<1> HIDE DEF Row, Content
<1>1. sess' = [sess EXCEPT ![c] = y]
  BY DEF TypeInv, SessionState
<1>2. /\ x \in SessionState /\ x.pc = p /\ x.cmd = sess[c].cmd /\ x.row = sess[c].row
      /\ x.was = sess[c].was /\ x.prev = sess[c].prev /\ x.imports = sess[c].imports
  BY Fields DEF SessionState, Places, Commands
<1> HIDE DEF x
<1>3. /\ y \in SessionState /\ y.pc = p /\ y.cmd = sess[c].cmd /\ y.row = sess[c].row
      /\ y.was = w /\ y.prev = sess[c].prev /\ y.imports = sess[c].imports
  BY <1>2 DEF SessionState, Places, Commands
<1> HIDE DEF y
<1> HIDE DEF SessionState
<1>4. /\ Now(c, y.pc, y.cmd, y.row, y.was, y.prev, y.imports)
      /\ sess' \in [Client -> SessionState]
  BY <1>1, <1>3, BecomesNow
<1> QED BY <1>3, <1>4

LEMMA TakeOverNow ==
    ASSUME TypeInv, NEW c \in Client, TakeOver(c)
    PROVE  /\ Now(c, "load", sess[c].cmd, sess[c].row, sess[c].was, file, file.sites)
           /\ sess' \in [Client -> SessionState]
<1> DEFINE i == file.sites
           x == [sess[c] EXCEPT !.pc = "load"]
           y == [x EXCEPT !.prev = file]
           z == [y EXCEPT !.imports = i]
<1>1. file \in Content /\ i \in BOOLEAN
  BY DEF TypeInv, Content
<1> HIDE DEF Row, Content, i
<1>2. sess' = [sess EXCEPT ![c] = z]
  BY DEF TakeOver, TypeInv, SessionState, i
<1>3. /\ x \in SessionState /\ x.pc = "load" /\ x.cmd = sess[c].cmd /\ x.row = sess[c].row
      /\ x.was = sess[c].was
  BY Fields DEF SessionState
<1> HIDE DEF x
<1>4. /\ y \in SessionState /\ y.pc = "load" /\ y.cmd = sess[c].cmd /\ y.row = sess[c].row
      /\ y.was = sess[c].was /\ y.prev = file
  BY <1>1, <1>3 DEF SessionState
<1> HIDE DEF y
<1>5. /\ z \in SessionState /\ z.pc = "load" /\ z.cmd = sess[c].cmd /\ z.row = sess[c].row
      /\ z.was = sess[c].was /\ z.prev = file /\ z.imports = i
  BY <1>1, <1>4 DEF SessionState
<1> HIDE DEF z, SessionState
<1>6. /\ Now(c, z.pc, z.cmd, z.row, z.was, z.prev, z.imports)
      /\ sess' \in [Client -> SessionState]
  BY <1>2, <1>5, BecomesNow
<1>7. Now(c, "load", sess[c].cmd, sess[c].row, sess[c].was, file, i)
  BY <1>5, <1>6 DEF Now
<1> QED BY <1>6, <1>7 DEF i

LEMMA PlaceRowNow ==
    ASSUME TypeInv, NEW c \in Client, NEW p \in Places, NEW r \in Row,
           sess' = [sess EXCEPT ![c].row = r, ![c].pc = p]
    PROVE  /\ Now(c, p, sess[c].cmd, r, sess[c].was, sess[c].prev, sess[c].imports)
           /\ sess' \in [Client -> SessionState]
<1> DEFINE x == [sess[c] EXCEPT !.row = r]
           y == [x EXCEPT !.pc = p]
<1> HIDE DEF Row, Content
<1>1. sess' = [sess EXCEPT ![c] = y]
  BY DEF TypeInv, SessionState
<1>2. /\ x \in SessionState /\ x.pc = sess[c].pc /\ x.cmd = sess[c].cmd /\ x.row = r
      /\ x.was = sess[c].was /\ x.prev = sess[c].prev /\ x.imports = sess[c].imports
  BY Fields DEF SessionState, Places, Commands
<1> HIDE DEF x
<1>3. /\ y \in SessionState /\ y.pc = p /\ y.cmd = sess[c].cmd /\ y.row = r
      /\ y.was = sess[c].was /\ y.prev = sess[c].prev /\ y.imports = sess[c].imports
  BY <1>2 DEF SessionState, Places, Commands
<1> HIDE DEF y
<1> HIDE DEF SessionState
<1>4. /\ Now(c, y.pc, y.cmd, y.row, y.was, y.prev, y.imports)
      /\ sess' \in [Client -> SessionState]
  BY <1>1, <1>3, BecomesNow
<1> QED BY <1>3, <1>4

LEMMA WasRowNow ==
    ASSUME TypeInv, NEW c \in Client, NEW w \in Content \cup {None}, NEW r \in Row,
           sess' = [sess EXCEPT ![c].was = w, ![c].row = r]
    PROVE  /\ Now(c, sess[c].pc, sess[c].cmd, r, w, sess[c].prev, sess[c].imports)
           /\ sess' \in [Client -> SessionState]
<1> DEFINE x == [sess[c] EXCEPT !.was = w]
           y == [x EXCEPT !.row = r]
<1> HIDE DEF Row, Content
<1>1. sess' = [sess EXCEPT ![c] = y]
  BY DEF TypeInv, SessionState
<1>2. /\ x \in SessionState /\ x.pc = sess[c].pc /\ x.cmd = sess[c].cmd /\ x.row = sess[c].row
      /\ x.was = w /\ x.prev = sess[c].prev /\ x.imports = sess[c].imports
  BY Fields DEF SessionState, Places, Commands
<1> HIDE DEF x
<1>3. /\ y \in SessionState /\ y.pc = sess[c].pc /\ y.cmd = sess[c].cmd /\ y.row = r
      /\ y.was = w /\ y.prev = sess[c].prev /\ y.imports = sess[c].imports
  BY <1>2 DEF SessionState, Places, Commands
<1> HIDE DEF y
<1> HIDE DEF SessionState
<1>4. /\ Now(c, y.pc, y.cmd, y.row, y.was, y.prev, y.imports)
      /\ sess' \in [Client -> SessionState]
  BY <1>1, <1>3, BecomesNow
<1> QED BY <1>3, <1>4

LEMMA PlaceWasRowNow ==
    ASSUME TypeInv, NEW c \in Client, NEW p \in Places, NEW w \in Content \cup {None}, NEW r \in Row,
           sess' = [sess EXCEPT ![c].pc = p, ![c].was = w, ![c].row = r]
    PROVE  /\ Now(c, p, sess[c].cmd, r, w, sess[c].prev, sess[c].imports)
           /\ sess' \in [Client -> SessionState]
<1> DEFINE x == [sess[c] EXCEPT !.pc = p]
           y == [x EXCEPT !.was = w]
           z == [y EXCEPT !.row = r]
<1> HIDE DEF Row, Content
<1>1. sess' = [sess EXCEPT ![c] = z]
  BY DEF TypeInv, SessionState
<1>2. /\ x \in SessionState /\ x.pc = p /\ x.cmd = sess[c].cmd /\ x.row = sess[c].row
      /\ x.was = sess[c].was /\ x.prev = sess[c].prev /\ x.imports = sess[c].imports
  BY Fields DEF SessionState, Places, Commands
<1> HIDE DEF x
<1>3. /\ y \in SessionState /\ y.pc = p /\ y.cmd = sess[c].cmd /\ y.row = sess[c].row
      /\ y.was = w /\ y.prev = sess[c].prev /\ y.imports = sess[c].imports
  BY <1>2 DEF SessionState, Places, Commands
<1> HIDE DEF y
<1>4. /\ z \in SessionState /\ z.pc = p /\ z.cmd = sess[c].cmd /\ z.row = r
      /\ z.was = w /\ z.prev = sess[c].prev /\ z.imports = sess[c].imports
  BY <1>3 DEF SessionState, Places, Commands
<1> HIDE DEF z
<1> HIDE DEF SessionState
<1>5. /\ Now(c, z.pc, z.cmd, z.row, z.was, z.prev, z.imports)
      /\ sess' \in [Client -> SessionState]
  BY <1>1, <1>4, BecomesNow
<1> QED BY <1>4, <1>5

LEMMA ProbeNow ==
    ASSUME TypeInv, NEW c \in Client, Probe(c)
    PROVE  \E p \in {"lock", "save"}, r \in Row :
              /\ ~r.lost
              /\ Now(c, p, sess[c].cmd, r, sess[c].was, sess[c].prev, sess[c].imports)
              /\ sess' \in [Client -> SessionState]
              /\ p = "lock" => sess[c].cmd = "execute"
<1> DEFINE p == IF sess[c].cmd = "execute" THEN "lock" ELSE "save"
<1>1. PICK x \in BOOLEAN :
         sess' = [sess EXCEPT ![c].row = Checked(db.row, x), ![c].pc = p]
  <2>1. PICK valid, usable :
           sess' = [sess EXCEPT
                     ![c].row = Checked(db.row, Problem(db.row.mode, valid, usable, Reachable)),
                     ![c].pc = IF sess[c].cmd = "execute" THEN "lock" ELSE "save"]
    BY DEF Probe
  <2>2. Problem(db.row.mode, valid, usable, Reachable) \in BOOLEAN
    BY DEF Problem
  <2> QED BY <2>1, <2>2
<1> DEFINE r == Checked(db.row, x)
<1>2. r \in Row /\ ~r.lost
  <2>1. db.row \in Row
    <3> HIDE DEF Row
    <3> QED BY DEF TypeInv
  <2> HIDE DEF Row, Content
  <2> QED BY <2>1, RowEdits
<1>3. p \in Places /\ p \in {"lock", "save"} /\ (p = "lock" => sess[c].cmd = "execute")
  BY DEF Places
<1> HIDE DEF r, p, Places, Row, SessionState
<1>4. sess' = [sess EXCEPT ![c].row = r, ![c].pc = p]
  BY <1>1 DEF r
<1>5. /\ Now(c, p, sess[c].cmd, r, sess[c].was, sess[c].prev, sess[c].imports)
      /\ sess' \in [Client -> SessionState]
  BY <1>2, <1>3, <1>4, PlaceRowNow
<1> QED BY <1>2, <1>3, <1>5

LEMMA StepsNow ==
    ASSUME TypeInv, NEW c \in Client
    PROVE  LET m == sess[c].cmd  r == sess[c].row  w == sess[c].was
               q == sess[c].prev i == sess[c].imports
               typed == sess' \in [Client -> SessionState]
           IN  /\ PrepareBackup(c) =>
                    typed /\ Now(c, "prepare", m, [r EXCEPT !.backup = IF file = Absent THEN None ELSE file],
                                 file, q, i)
               /\ PrepareFails(c) => typed /\ Now(c, "fail", m, [r EXCEPT !.backup = None], None, q, i)
               /\ TakeOver(c) => typed /\ Now(c, "load", m, r, w, file, file.sites)
               /\ EditBackup(c) => typed /\ Now(c, "replace", m, r, w, file, i)
               /\ EditWrite(c) => typed /\ Now(c, "restart", m, r, q, q, i)
               /\ RestoreFails(c) => typed /\ Now(c, "fail", m, Loss(r, w), w, q, i)
               /\ RestartAgainFails(c) /\ m # "broken" => typed /\ Now(c, "fail", m, Loss(r, w), w, q, i)
               /\ SaveBusy(c) /\ At(c, "save") /\ w # None => typed /\ Now(c, "restore", "broken", r, w, q, i)
<1> DEFINE m == sess[c].cmd  r == sess[c].row  w == sess[c].was
           q == sess[c].prev i == sess[c].imports
           typed == sess' \in [Client -> SessionState]
<1>0. /\ r \in Row /\ w \in Content \cup {None} /\ q \in Content /\ sess[c].pc \in Places
      /\ file \in Content /\ file.sites \in BOOLEAN
  <2>1. file \in Content /\ file.sites \in BOOLEAN
    BY DEF TypeInv, Content
  <2> HIDE DEF Row, Content
  <2> QED BY <2>1, Fields
<1>1. {"prepare", "fail", "load", "replace", "restart", "restore"} \subseteq Places /\ "broken" \in Commands
  BY DEF Places, Commands
<1>2. sess \in [Client -> SessionState]
  BY DEF TypeInv
<1> HIDE DEF Content, Row, Places, Commands, Absent
<1>3. ASSUME PrepareBackup(c)
      PROVE  typed /\ Now(c, "prepare", m, [r EXCEPT !.backup = IF file = Absent THEN None ELSE file], file, q, i)
  <2> DEFINE b == IF file = Absent THEN None ELSE file
             s == [r EXCEPT !.backup = b]
  <2>1. b \in Content \cup {None}
    BY <1>0
  <2>2. s \in Row
    BY <1>0, <2>1, RowEdits
  <2>3. sess[c].pc = "prepare"
    BY <1>3 DEF PrepareBackup, At
  <2>4. sess' = [sess EXCEPT ![c].was = file, ![c].row = s]
    BY <1>2, <1>3 DEF PrepareBackup, SessionState
  <2> HIDE DEF s, b
  <2>5. typed /\ Now(c, "prepare", m, s, file, q, i)
    <3>1. typed /\ Now(c, sess[c].pc, m, s, file, q, i)
      BY <1>0, <2>2, <2>4, WasRowNow
    <3> QED BY <2>3, <3>1
  <2> QED BY <2>5 DEF s, b
<1>4. ASSUME PrepareFails(c)
      PROVE  typed /\ Now(c, "fail", m, [r EXCEPT !.backup = None], None, q, i)
  <2> DEFINE s == [r EXCEPT !.backup = None]
  <2>1. s \in Row
    BY <1>0, RowEdits
  <2>2. sess' = [sess EXCEPT ![c].pc = "fail", ![c].was = None, ![c].row = s]
    BY <1>2, <1>4 DEF PrepareFails, SessionState
  <2> HIDE DEF s
  <2>3. typed /\ Now(c, "fail", m, s, None, q, i)
    BY <1>1, <2>1, <2>2, PlaceWasRowNow
  <2> QED BY <2>3 DEF s
<1>5. ASSUME TakeOver(c)
      PROVE  typed /\ Now(c, "load", m, r, w, file, file.sites)
  BY <1>5, TakeOverNow
<1>6. ASSUME EditBackup(c)
      PROVE  typed /\ Now(c, "replace", m, r, w, file, i)
  BY <1>0, <1>1, <1>6, PlacePrevNow DEF EditBackup
<1>7. ASSUME EditWrite(c)
      PROVE  typed /\ Now(c, "restart", m, r, q, q, i)
  BY <1>0, <1>1, <1>7, PlaceWasNow DEF EditWrite
<1>8. ASSUME RestoreFails(c) \/ (RestartAgainFails(c) /\ m # "broken")
      PROVE  typed /\ Now(c, "fail", m, Loss(r, w), w, q, i)
  <2>1. Loss(r, w) \in Row
    BY <1>0, LossRow
  <2>2. sess' = [sess EXCEPT ![c].row = Loss(r, w), ![c].pc = "fail"]
    BY <1>8 DEF RestoreFails, RestartAgainFails
  <2> DEFINE s == Loss(r, w)
  <2> HIDE DEF s
  <2>3. s \in Row /\ sess' = [sess EXCEPT ![c].row = s, ![c].pc = "fail"]
    BY <2>1, <2>2 DEF s
  <2>4. typed /\ Now(c, "fail", m, s, w, q, i)
    BY <1>1, <2>3, PlaceRowNow
  <2> QED BY <2>4 DEF s
<1>9. ASSUME SaveBusy(c), At(c, "save"), w # None
      PROVE  typed /\ Now(c, "restore", "broken", r, w, q, i)
  BY <1>1, <1>9, PlaceCmdNow DEF SaveBusy
<1> QED BY <1>3, <1>4, <1>5, <1>6, <1>7, <1>8, <1>9
-----------------------------------------------------------------------------
(***************************************************************************)
(* Types and locks.                                                        *)
(***************************************************************************)
LEMMA AskTypes ==
    ASSUME TypeInv, NEW c \in Client, Asks(c)
    PROVE  TypeInv'
<1>1. \E m \in Commands, p \in Places, r \in Row : Ask(c, m, p, r)
  <2>1. db.row \in Row
    <3> HIDE DEF Row
    <3> QED BY DEF TypeInv
  <2>2. FreshRow \in Row /\ \A m \in Modes : [FreshRow EXCEPT !.status = "in_progress", !.mode = m] \in Row
    BY DEF FreshRow, Row
  <2> HIDE DEF Row
  <2> QED BY <2>1, <2>2 DEF Asks, AskReset, AskLocation, AskMode, AskPreflight, AskExecute, AskEnable,
                           Commands, Places
<1> HIDE DEF Commands, Places, Row
<1>2. sess' \in [Client -> SessionState]
  BY <1>1, AskNow
<1>3. UNCHANGED <<db, file, backups, caddy, deploy, original, accounted, uncovered>>
  BY <1>1 DEF Ask, store, disk, history
<1> QED BY <1>2, <1>3 DEF TypeInv

LEMMA WorkSessions ==
    ASSUME TypeInv, NEW c \in Client, Work(c)
    PROVE  sess' \in [Client -> SessionState]
<1>1. ASSUME NEW p \in Places, Goto(c, p)
      PROVE  sess' \in [Client -> SessionState]
  BY <1>1, GotoNow
<1>2. ASSUME Done(c)
      PROVE  sess' \in [Client -> SessionState]
  BY <1>2, DoneNow
<1>3. ASSUME Undo(c)
      PROVE  sess' \in [Client -> SessionState]
  BY <1>1, <1>3 DEF Undo, Places
<1> HIDE DEF SessionState
<1>4. CASE Save(c) \/ SaveBusy(c) \/ LockAndEnd(c) \/ Commit(c) \/ Fail(c) \/ InspectRefused(c)
  <2>1. CASE SaveBusy(c)
    BY <1>2, <2>1, StepsNow DEF SaveBusy
  <2> QED BY <1>2, <1>4, <2>1 DEF Save, LockAndEnd, Commit, Fail, InspectRefused
<1>5. CASE Probe(c) \/ PrepareBackup(c) \/ PrepareFails(c) \/ TakeOver(c) \/ EditBackup(c) \/ EditWrite(c)
           \/ RestoreFails(c)
  BY <1>5, ProbeNow, StepsNow
<1>6. CASE ProbeRefused(c) \/ Lock(c) \/ PrepareWrite(c) \/ TakeGuard(c) \/ AlreadyManaged(c) \/ Load(c)
           \/ InspectReached(c) \/ EditFails(c) \/ PrepareRefused(c)
  BY <1>1, <1>2, <1>6 DEF ProbeRefused, Lock, PrepareRefused, PrepareWrite, TakeGuard, AlreadyManaged, Load,
                          InspectReached, EditFails, Places
<1>7. CASE GuardTimeout(c) \/ TakeoverRefused(c) \/ LoadFails(c)
  BY <1>3, <1>7 DEF GuardTimeout, TakeoverRefused, LoadFails
<1>8. CASE Restart(c) \/ RestartFails(c) \/ Polled(c) \/ PollFails(c) \/ Restore(c)
  BY <1>1, <1>8 DEF Restart, RestartFails, Polled, PollFails, Restore, AfterRestore, Places
<1>9. CASE RestartAgain(c) \/ RestartAgainFails(c)
  BY <1>1, <1>2, <1>9, StepsNow DEF RestartAgain, RestartAgainFails, Places
<1> QED BY <1>4, <1>5, <1>6, <1>7, <1>8, <1>9 DEF Work

LEMMA WorkRow ==
    ASSUME TypeInv, NEW c \in Client, Work(c)
    PROVE  db' \in [row : Row, settings : {"default", "wizard"}, sites : BOOLEAN, snapshot : BOOLEAN]
<1>1. /\ db \in [row : Row, settings : {"default", "wizard"}, sites : BOOLEAN, snapshot : BOOLEAN]
      /\ sess[c].row \in Row /\ sess[c].imports \in BOOLEAN /\ sess[c].row.lost \in BOOLEAN
      /\ sess[c].row.backup \in Content \cup {None}
  <2>1. \A r \in Row : r.lost \in BOOLEAN /\ r.backup \in Content \cup {None}
    <3> HIDE DEF Content
    <3> QED BY DEF Row
  <2> HIDE DEF Row, Content
  <2> QED BY <2>1, Fields DEF TypeInv
<1>2. /\ Completed(sess[c].row) \in Row
      /\ FailedRow(sess[c].row, sess[c].row.lost, sess[c].row.backup) \in Row
  <2> HIDE DEF Row, Content
  <2> QED BY <1>1, RowEdits
<1> HIDE DEF Row, Content
<1>3. CASE Save(c)
  BY <1>1, <1>3 DEF Save
<1>4. CASE LockAndEnd(c)
  BY <1>1, <1>2, <1>4 DEF LockAndEnd
<1>5. CASE Fail(c)
  <2> DEFINE r == FailedRow(sess[c].row, sess[c].row.lost, sess[c].row.backup)
  <2>1. r \in Row /\ db' = [db EXCEPT !.row = r]
    BY <1>2, <1>5 DEF Fail
  <2> HIDE DEF r
  <2> QED BY <1>1, <2>1
<1>6. CASE Commit(c)
  <2> DEFINE a == db.sites \/ sess[c].imports
             b == db.snapshot \/ sess[c].imports
             r == Completed(sess[c].row)
  <2>1. a \in BOOLEAN /\ b \in BOOLEAN /\ r \in Row
    BY <1>2
  <2>2. db' = [row |-> r, settings |-> "wizard", sites |-> a, snapshot |-> b]
    BY <1>6 DEF Commit
  <2> HIDE DEF a, b, r
  <2> QED BY <2>1, <2>2
<1>7. ASSUME db' = db
      PROVE  db' \in [row : Row, settings : {"default", "wizard"}, sites : BOOLEAN, snapshot : BOOLEAN]
  BY <1>1, <1>7
<1>8. \/ Save(c) \/ LockAndEnd(c) \/ Fail(c) \/ Commit(c)
      \/ db' = db
  BY DEF Work, SaveBusy, Probe, ProbeRefused, Lock, PrepareBackup, PrepareRefused,
           PrepareWrite, PrepareFails,
         TakeGuard, GuardTimeout, AlreadyManaged, TakeoverRefused, TakeOver, Load, LoadFails,
         InspectRefused, InspectReached, EditBackup, EditWrite, EditFails, Restart, RestartFails,
         Polled, PollFails, Restore, RestoreFails, RestartAgain, RestartAgainFails, store
<1> QED BY <1>3, <1>4, <1>5, <1>6, <1>7, <1>8

LEMMA WorkDisk ==
    ASSUME TypeInv, Edited, NEW c \in Client, Work(c)
    PROVE  /\ file' \in Content /\ backups' \subseteq Content
           /\ caddy' \in [up : BOOLEAN, runs : Content]
<1>1. /\ sess[c].was \in Content \cup {None} /\ sess[c].prev \in Content
      /\ file \in Content /\ backups \subseteq Content /\ caddy \in [up : BOOLEAN, runs : Content]
  <2> HIDE DEF Content
  <2> QED BY Fields DEF TypeInv
<1>2. /\ \A x \in Content : [x EXCEPT !.admin = TRUE] \in Content
      /\ Managed(db.sites \/ file.sites) \in Content
  BY DEF Content, Managed
<1>3. file' \in Content
  <2> HIDE DEF Content
  <2>1. CASE PrepareWrite(c)
    BY <2>1, Values DEF PrepareWrite
  <2>2. CASE TakeOver(c)
    BY <1>2, <2>2 DEF TakeOver
  <2>3. CASE LoadFails(c)
    BY <1>1, <2>3 DEF LoadFails
  <2>4. CASE EditWrite(c)
    BY <1>1, <1>2, <2>4 DEF EditWrite
  <2>5. CASE Restore(c)
    <3>1. sess[c].was # None
      BY <2>5 DEF Restore, At, Edited
    <3> QED BY <1>1, <2>5, <3>1 DEF Restore
  <2>6. \/ PrepareWrite(c) \/ TakeOver(c) \/ LoadFails(c) \/ EditWrite(c) \/ Restore(c)
        \/ file' = file
    BY DEF Work, Save, SaveBusy, Probe, ProbeRefused, Lock, LockAndEnd, PrepareBackup,
           PrepareRefused, PrepareFails,
           TakeGuard, GuardTimeout, AlreadyManaged, TakeoverRefused, Load, Commit, Fail,
           InspectRefused, InspectReached, EditBackup, EditFails, Restart, RestartFails,
           Polled, PollFails, RestoreFails, RestartAgain, RestartAgainFails, disk
  <2> QED BY <1>1, <2>1, <2>2, <2>3, <2>4, <2>5, <2>6
<1>4. backups' \subseteq Content
  <2> HIDE DEF Content
  <2>1. backups' = backups \/ backups' = backups \cup {file}
    BY DEF Work, Save, SaveBusy, Probe, ProbeRefused, Lock, LockAndEnd, PrepareBackup,
           PrepareRefused, PrepareWrite,
           PrepareFails, TakeGuard, GuardTimeout, AlreadyManaged, TakeoverRefused, TakeOver, Load,
           LoadFails, Commit, Fail, InspectRefused, InspectReached, EditBackup, EditWrite, EditFails,
           Restart, RestartFails, Polled, PollFails, Restore, RestoreFails, RestartAgain,
           RestartAgainFails, disk
  <2> QED BY <1>1, <2>1
<1>5. caddy' \in [up : BOOLEAN, runs : Content]
  <2> HIDE DEF Content
  <2>1. \/ caddy' = caddy \/ caddy' = [caddy EXCEPT !.runs = file]
        \/ caddy' = [up |-> TRUE, runs |-> caddy.runs] \/ caddy' = [up |-> TRUE, runs |-> file]
    BY DEF Work, Save, SaveBusy, Probe, ProbeRefused, Lock, LockAndEnd, PrepareBackup,
           PrepareRefused, PrepareWrite,
           PrepareFails, TakeGuard, GuardTimeout, AlreadyManaged, TakeoverRefused, TakeOver, Load,
           LoadFails, Commit, Fail, InspectRefused, InspectReached, EditBackup, EditWrite, EditFails,
           Restart, RestartFails, Polled, PollFails, Restore, RestoreFails, RestartAgain,
           RestartAgainFails
  <2>2. ASSUME NEW x \in [up : BOOLEAN, runs : Content], NEW y \in Content
        PROVE  /\ x.runs \in Content /\ [x EXCEPT !.runs = y] \in [up : BOOLEAN, runs : Content]
               /\ [up |-> TRUE, runs |-> y] \in [up : BOOLEAN, runs : Content]
    OBVIOUS
  <2> DEFINE C == [up : BOOLEAN, runs : Content]
  <2>3. [caddy EXCEPT !.runs = file] \in C
    BY <1>1, <2>2
  <2>4. [up |-> TRUE, runs |-> caddy.runs] \in C
    BY <1>1, <2>2
  <2>5. [up |-> TRUE, runs |-> file] \in C
    BY <1>1, <2>2
  <2>6. caddy \in C
    BY <1>1
  <2> HIDE DEF C
  <2>7. caddy' \in C
    BY <2>1, <2>3, <2>4, <2>5, <2>6
  <2> QED BY <2>7 DEF C
<1> QED BY <1>3, <1>4, <1>5

\* The starter file and the deployment belong to nobody's session.
LEMMA WorkRest ==
    ASSUME TypeInv, NEW c \in Client, Work(c)
    PROVE  /\ UNCHANGED <<deploy, original>>
           /\ accounted' \in BOOLEAN /\ uncovered' \in BOOLEAN
<1>1. UNCHANGED <<deploy, original>>
  BY DEF Work, Save, SaveBusy, Probe, ProbeRefused, Lock, LockAndEnd, PrepareBackup,
           PrepareRefused, PrepareWrite,
           PrepareFails, TakeGuard, GuardTimeout, AlreadyManaged, TakeoverRefused, TakeOver, Load,
           LoadFails, Commit, Fail, InspectRefused, InspectReached, EditBackup, EditWrite, EditFails,
           Restart, RestartFails, Polled, PollFails, Restore, RestoreFails, RestartAgain,
           RestartAgainFails, history
<1>2. \/ accounted' = accounted \/ accounted' = TRUE
      \/ accounted' = (accounted \/ sess[c].was # None)
      \/ accounted' = (accounted \/ sess[c].row.lost)
  BY DEF Work, Save, SaveBusy, Probe, ProbeRefused, Lock, LockAndEnd, PrepareBackup,
           PrepareRefused, PrepareWrite,
           PrepareFails, TakeGuard, GuardTimeout, AlreadyManaged, TakeoverRefused, TakeOver, Load,
           LoadFails, Commit, Fail, InspectRefused, InspectReached, EditBackup, EditWrite, EditFails,
           Restart, RestartFails, Polled, PollFails, Restore, RestoreFails, RestartAgain,
           RestartAgainFails, history
<1>3. \/ uncovered' = uncovered \/ uncovered' = Overlaps(c)
      \/ uncovered' = (uncovered \/ sess[c].was = None)
  BY DEF Work, Save, SaveBusy, Probe, ProbeRefused, Lock, LockAndEnd, PrepareBackup,
           PrepareRefused, PrepareWrite,
           PrepareFails, TakeGuard, GuardTimeout, AlreadyManaged, TakeoverRefused, TakeOver, Load,
           LoadFails, Commit, Fail, InspectRefused, InspectReached, EditBackup, EditWrite, EditFails,
           Restart, RestartFails, Polled, PollFails, Restore, RestoreFails, RestartAgain,
           RestartAgainFails, history
<1>4. accounted' \in BOOLEAN
  BY <1>2 DEF TypeInv
<1>5. uncovered' \in BOOLEAN
  BY <1>3 DEF TypeInv, Overlaps
<1> QED BY <1>1, <1>4, <1>5

LEMMA WorldTypes ==
    ASSUME TypeInv, DeployStep \/ CaddyStops \/ CaddyStarts
    PROVE  TypeInv'
<1>1. UNCHANGED <<db, sess, original, accounted, backups>>
  BY DEF DeployStep, DeployBegin, DeployWrite, DeployLoad, DeployLoadFails,
         CaddyStops, CaddyStarts, store, disk, history
<1>2. /\ db.sites \in BOOLEAN /\ deploy.sites \in BOOLEAN /\ deploy.prev \in Content /\ file \in Content
      /\ caddy \in [up : BOOLEAN, runs : Content] /\ uncovered \in BOOLEAN
      /\ deploy \in [pc : {"idle", "write", "load"}, sites : BOOLEAN, prev : Content]
  <2> HIDE DEF Content, Row
  <2> QED BY DEF TypeInv
<1>3. \A b \in BOOLEAN : Managed(b) \in Content
  BY DEF Managed, Content
<1> HIDE DEF Content
<1>4. file' \in Content
  BY <1>2, <1>3 DEF DeployStep, DeployBegin, DeployWrite, DeployLoad, DeployLoadFails,
         CaddyStops, CaddyStarts, disk
<1>5. deploy' \in [pc : {"idle", "write", "load"}, sites : BOOLEAN, prev : Content]
  <2> DEFINE D == [pc : {"idle", "write", "load"}, sites : BOOLEAN, prev : Content]
  <2>1. CASE DeployBegin
    BY <1>2, <2>1 DEF DeployBegin
  <2>2. CASE DeployWrite
    <3>1. deploy' = [[deploy EXCEPT !.pc = "load"] EXCEPT !.prev = file]
      BY <2>2 DEF DeployWrite
    <3> QED BY <1>2, <3>1
  <2>3. CASE DeployLoad \/ DeployLoadFails
    <3>1. deploy' = [deploy EXCEPT !.pc = "idle"]
      BY <2>3 DEF DeployLoad, DeployLoadFails
    <3> QED BY <1>2, <3>1
  <2>4. CASE CaddyStops \/ CaddyStarts
    <3>1. deploy' = deploy
      BY <2>4 DEF CaddyStops, CaddyStarts
    <3> QED BY <1>2, <3>1
  <2> QED BY <2>1, <2>2, <2>3, <2>4 DEF DeployStep
<1>6. caddy' \in [up : BOOLEAN, runs : Content]
  <2> DEFINE M == Managed(deploy.sites)
  <2>1. M \in Content
    BY <1>2, <1>3
  <2>2. \/ caddy' = caddy \/ caddy' = [caddy EXCEPT !.runs = M]
        \/ caddy' = [caddy EXCEPT !.up = FALSE] \/ caddy' = [up |-> TRUE, runs |-> file]
    BY DEF DeployStep, DeployBegin, DeployWrite, DeployLoad, DeployLoadFails, CaddyStops, CaddyStarts
  <2> HIDE DEF M
  <2>3. [caddy EXCEPT !.runs = M] \in [up : BOOLEAN, runs : Content]
    BY <1>2, <2>1
  <2>4. [caddy EXCEPT !.up = FALSE] \in [up : BOOLEAN, runs : Content]
    BY <1>2
  <2>5. [up |-> TRUE, runs |-> file] \in [up : BOOLEAN, runs : Content]
    BY <1>2
  <2> DEFINE C == [up : BOOLEAN, runs : Content]
  <2>6. /\ caddy \in C /\ [caddy EXCEPT !.runs = M] \in C
        /\ [caddy EXCEPT !.up = FALSE] \in C /\ [up |-> TRUE, runs |-> file] \in C
    BY <1>2, <2>3, <2>4, <2>5
  <2> HIDE DEF C
  <2>7. caddy' \in C
    BY <2>2, <2>6
  <2> QED BY <2>7 DEF C
<1>7. uncovered' \in BOOLEAN
  BY <1>2 DEF DeployStep, DeployBegin, DeployWrite, DeployLoad, DeployLoadFails,
         CaddyStops, CaddyStarts, history
<1> QED BY <1>1, <1>4, <1>5, <1>6, <1>7 DEF TypeInv

LEMMA TypeStep ==
    ASSUME TypeInv, Edited, [Next]_vars
    PROVE  TypeInv'
<1>1. ASSUME NEW c \in Client, Work(c)
      PROVE  TypeInv'
  <2> HIDE DEF SessionState, Row, Content
  <2> QED BY <1>1, WorkSessions, WorkRow, WorkDisk, WorkRest DEF TypeInv
<1>2. CASE UNCHANGED vars
  BY <1>2 DEF vars, TypeInv
<1> QED BY <1>1, <1>2, AskTypes, WorldTypes DEF Next

LEMMA EditedStep ==
    ASSUME TypeInv, Edited, [Next]_vars
    PROVE  Edited'
<1> DEFINE Editing == {"restart", "poll", "restore", "again"}
<1>1. ASSUME NEW c \in Client, \A d \in Client : d # c => sess'[d] = sess[d],
             sess'[c].pc \in Editing => sess'[c].was # None
      PROVE  Edited'
  BY <1>1 DEF Edited
<1>2. ASSUME NEW c \in Client, NEW p \in Places, Goto(c, p), p \in Editing => sess[c].was # None
      PROVE  Edited'
  <2>1. Now(c, p, sess[c].cmd, sess[c].row, sess[c].was, sess[c].prev, sess[c].imports)
    BY <1>2, GotoNow
  <2> QED BY <1>1, <1>2, <2>1 DEF Now
<1>3. ASSUME NEW c \in Client, Done(c)
      PROVE  Edited'
  <2>1. Now(c, "idle", None, FreshRow, None, Absent, FALSE)
    BY <1>3, DoneNow
  <2> QED BY <1>1, <2>1 DEF Now
<1>4. ASSUME NEW c \in Client, Undo(c)
      PROVE  Edited'
  BY <1>2, <1>4 DEF Undo, Places
<1>5. ASSUME NEW c \in Client, Asks(c)
      PROVE  Edited'
  <2>0. PICK p \in {"save", "probe", "inspect"} : \E m, r : Ask(c, m, p, r)
    BY <1>5 DEF Asks, AskReset, AskLocation, AskMode, AskPreflight, AskExecute, AskEnable
  <2>1. PICK m, r : Ask(c, m, p, r)
    BY <2>0
  <2> DEFINE y == [Idle EXCEPT !.pc = p, !.cmd = m, !.row = r]
  <2>2. y.pc = p
    BY DEF Idle
  <2>3. sess' = [sess EXCEPT ![c] = y]
    BY <2>1 DEF Ask
  <2> HIDE DEF y
  <2>4. sess'[c].pc = p /\ \A d \in Client : d # c => sess'[d] = sess[d]
    BY <2>2, <2>3 DEF TypeInv
  <2> QED BY <1>1, <2>4
<1>6. ASSUME NEW c \in Client, Work(c)
      PROVE  Edited'
  <2>1. CASE Save(c) \/ LockAndEnd(c) \/ Commit(c) \/ Fail(c) \/ InspectRefused(c)
    BY <1>3, <2>1 DEF Save, LockAndEnd, Commit, Fail, InspectRefused
  <2>2. CASE SaveBusy(c)
    <3>1. CASE Done(c)
      BY <1>3, <3>1
    <3>2. CASE At(c, "save") /\ sess[c].was # None
      <4>1. Now(c, "restore", "broken", sess[c].row, sess[c].was, sess[c].prev, sess[c].imports)
        BY <2>2, <3>2, StepsNow
      <4> QED BY <1>1, <3>2, <4>1 DEF Now
    <3> QED BY <2>2, <3>1, <3>2 DEF SaveBusy
  <2>3. CASE Probe(c)
    BY <1>1, <2>3, ProbeNow DEF Now
  <2>4. CASE PrepareBackup(c) \/ PrepareFails(c) \/ TakeOver(c) \/ EditBackup(c) \/ RestoreFails(c)
    BY <1>1, <2>4, StepsNow DEF Now
  <2>5. CASE EditWrite(c)
    <3>1. sess[c].prev # None
      <4> HIDE DEF Content
      <4> QED BY Fields
    <3>2. Now(c, "restart", sess[c].cmd, sess[c].row, sess[c].prev, sess[c].prev, sess[c].imports)
      BY <2>5, StepsNow
    <3> QED BY <1>1, <3>1, <3>2 DEF Now
  <2>6. CASE Lock(c) \/ PrepareWrite(c) \/ TakeGuard(c) \/ AlreadyManaged(c) \/ Load(c)
             \/ InspectReached(c) \/ EditFails(c) \/ Polled(c) \/ PrepareRefused(c)
    BY <1>2, <2>6 DEF Lock, PrepareRefused, PrepareWrite, TakeGuard, AlreadyManaged, Load,
                      InspectReached, EditFails, Polled, Places
  <2>7. CASE ProbeRefused(c)
    BY <1>2, <1>3, <2>7 DEF ProbeRefused, Places
  <2>8. CASE GuardTimeout(c) \/ TakeoverRefused(c) \/ LoadFails(c)
    BY <1>4, <2>8 DEF GuardTimeout, TakeoverRefused, LoadFails
  <2>9. CASE Restart(c) \/ RestartFails(c) \/ PollFails(c) \/ Restore(c)
    <3>1. sess[c].was # None
      BY <2>9 DEF Restart, RestartFails, PollFails, Restore, At, Edited
    <3> QED BY <1>2, <2>9, <3>1 DEF Restart, RestartFails, PollFails, Restore, AfterRestore, Places
  <2>10. CASE RestartAgain(c)
    BY <1>2, <1>3, <2>10 DEF RestartAgain, Places
  <2>11. CASE RestartAgainFails(c)
    <3>1. CASE Done(c)
      BY <1>3, <3>1
    <3>2. CASE sess[c].cmd # "broken"
      BY <1>1, <2>11, <3>2, StepsNow DEF Now
    <3> QED BY <2>11, <3>1, <3>2 DEF RestartAgainFails
  <2> QED BY <1>6, <2>1, <2>2, <2>3, <2>4, <2>5, <2>6, <2>7, <2>8, <2>9, <2>10, <2>11 DEF Work
<1>7. CASE DeployStep \/ CaddyStops \/ CaddyStarts \/ UNCHANGED vars
  <2>1. sess' = sess
    BY <1>7 DEF DeployStep, DeployBegin, DeployWrite, DeployLoad, DeployLoadFails,
         CaddyStops, CaddyStarts, vars
  <2> QED BY <2>1 DEF Edited
<1> QED BY <1>5, <1>6, <1>7 DEF Next

Taking == {"takeover", "load"}
Locked == {"prepare", "guard", "takeover", "load", "commit"}

\* What a request does to the two locks keeps them apart.
LEMMA LockKept ==
    ASSUME LockInv, NEW c \in Client, deploy' = deploy,
           \A d \in Client : d # c => sess'[d] = sess[d],
           \/ guard' = guard /\ (sess'[c].pc \in Taking <=> sess[c].pc \in Taking)
           \/ guard = None /\ guard' = c /\ sess'[c].pc \in Taking
           \/ sess[c].pc \in Taking /\ guard' = None /\ sess'[c].pc \notin Taking,
           \/ dbLock' = dbLock /\ (sess'[c].pc \in Locked => sess[c].pc \in Locked)
           \/ dbLock = None /\ dbLock' = c
           \/ dbLock \in {None, c} /\ dbLock' = None /\ sess'[c].pc \notin Locked
    PROVE  LockInv'
<1>1. ASSUME NEW d \in Client
      PROVE  guard' = d <=> sess'[d].pc \in Taking
  <2>1. CASE d = c
    BY <2>1 DEF LockInv, Taking
  <2>2. CASE d # c
    BY <2>2 DEF LockInv, Taking
  <2> QED BY <2>1, <2>2
<1>2. ASSUME NEW d \in Client, sess'[d].pc \in Locked
      PROVE  dbLock' = d
  <2>1. CASE d = c
    BY <1>2, <2>1 DEF LockInv, Locked
  <2>2. CASE d # c
    BY <1>2, <2>2 DEF LockInv, Locked
  <2> QED BY <2>1, <2>2
<1>3. guard' = "deploy" <=> deploy'.pc # "idle"
  BY DEF LockInv, Taking
<1> QED BY <1>1, <1>2, <1>3 DEF LockInv, Taking, Locked

LEMMA LockStep ==
    ASSUME TypeInv, LockInv, [Next]_vars
    PROVE  LockInv'
<1>1. ASSUME NEW c \in Client, NEW p \in Places, Goto(c, p)
      PROVE  sess'[c].pc = p /\ \A d \in Client : d # c => sess'[d] = sess[d]
  BY <1>1, GotoNow DEF Now
<1>2. ASSUME NEW c \in Client, Done(c)
      PROVE  sess'[c].pc = "idle" /\ \A d \in Client : d # c => sess'[d] = sess[d]
  BY <1>2, DoneNow DEF Now
<1>3. ASSUME NEW c \in Client, Undo(c)
      PROVE  sess'[c].pc \in {"restore", "fail"} /\ \A d \in Client : d # c => sess'[d] = sess[d]
  BY <1>1, <1>3 DEF Undo, Places
<1>4. ASSUME NEW c \in Client, Asks(c)
      PROVE  LockInv'
  <2>0. PICK p \in {"save", "probe", "inspect"} : \E m, r : Ask(c, m, p, r)
    BY <1>4 DEF Asks, AskReset, AskLocation, AskMode, AskPreflight, AskExecute, AskEnable
  <2>1. PICK m, r : Ask(c, m, p, r)
    BY <2>0
  <2> DEFINE y == [Idle EXCEPT !.pc = p, !.cmd = m, !.row = r]
  <2>2. y.pc = p
    BY DEF Idle
  <2>3. sess' = [sess EXCEPT ![c] = y]
    BY <2>1 DEF Ask
  <2> HIDE DEF y
  <2>4. sess'[c].pc = p /\ \A d \in Client : d # c => sess'[d] = sess[d]
    BY <2>2, <2>3 DEF TypeInv
  <2>5. guard' = guard /\ dbLock' = dbLock /\ deploy' = deploy /\ sess[c].pc = "idle"
    BY <2>1 DEF Ask, store, At
  <2> QED BY <2>4, <2>5, LockKept DEF Taking, Locked
<1>5. ASSUME NEW c \in Client, Work(c)
      PROVE  LockInv'
  <2>0. deploy' = deploy
    BY <1>5, WorkRest
  <2>1. CASE Save(c) \/ LockAndEnd(c) \/ InspectRefused(c)
    BY <1>2, <2>0, <2>1, LockKept DEF Save, LockAndEnd, InspectRefused, At, Taking, Locked, store
  <2>2. CASE SaveBusy(c)
    <3>1. sess[c].pc \notin Taking /\ guard' = guard /\ dbLock' = dbLock
      BY <2>2 DEF SaveBusy, Taking, store
    <3>2. CASE Done(c)
      BY <1>2, <2>0, <3>1, <3>2, LockKept DEF Taking, Locked
    <3>3. CASE At(c, "save") /\ sess[c].was # None
      <4>1. sess'[c].pc = "restore" /\ \A d \in Client : d # c => sess'[d] = sess[d]
        BY <2>2, <3>3, StepsNow DEF Now
      <4> QED BY <2>0, <3>1, <4>1, LockKept DEF Taking, Locked
    <3> QED BY <2>2, <3>2, <3>3 DEF SaveBusy
  <2>3. CASE Commit(c) \/ Fail(c)
    <3>1. sess'[c].pc = "idle" /\ \A d \in Client : d # c => sess'[d] = sess[d]
      BY <1>2, <2>3 DEF Commit, Fail
    <3>2. dbLock \in {None, c} /\ dbLock' = None /\ guard' = guard /\ sess[c].pc \notin Taking
      BY <2>3 DEF Commit, Fail, At, Taking, LockInv
    <3> QED BY <2>0, <3>1, <3>2, LockKept DEF Taking, Locked
  <2>4. CASE Probe(c)
    <3>1. sess'[c].pc \in {"lock", "save"} /\ \A d \in Client : d # c => sess'[d] = sess[d]
      BY <2>4, ProbeNow DEF Now
    <3> QED BY <2>0, <2>4, <3>1, LockKept DEF Probe, At, Taking, Locked, store
  <2>5. CASE PrepareBackup(c) \/ PrepareFails(c) \/ EditBackup(c) \/ EditWrite(c) \/ RestoreFails(c)
    <3>1. /\ sess'[c].pc \in {"prepare", "fail", "replace", "restart"}
          /\ sess'[c].pc = "prepare" => sess[c].pc = "prepare"
          /\ \A d \in Client : d # c => sess'[d] = sess[d]
      BY <2>5, StepsNow DEF Now, PrepareBackup, At
    <3> QED BY <2>0, <2>5, <3>1, LockKept
            DEF PrepareBackup, PrepareFails, EditBackup, EditWrite, RestoreFails, At, Taking, Locked, store
  <2>6. CASE TakeOver(c)
    <3>1. sess'[c].pc = "load" /\ \A d \in Client : d # c => sess'[d] = sess[d]
      BY <2>6, StepsNow DEF Now
    <3> QED BY <2>0, <2>6, <3>1, LockKept DEF TakeOver, At, Taking, Locked, store
  <2>7. CASE Lock(c)
    <3>1. sess'[c].pc \in {"prepare", "guard"} /\ \A d \in Client : d # c => sess'[d] = sess[d]
      BY <1>1, <2>7 DEF Lock, Places
    <3> QED BY <2>0, <2>7, <3>1, LockKept DEF Lock, At, Taking, Locked
  <2>8. CASE PrepareWrite(c) \/ PrepareRefused(c) \/ InspectReached(c) \/ EditFails(c) \/ Polled(c)
    <3>1. /\ sess'[c].pc \in {"guard", "probe", "fail"}
          /\ sess'[c].pc = "guard" => sess[c].pc = "prepare"
          /\ \A d \in Client : d # c => sess'[d] = sess[d]
      BY <1>1, <2>8 DEF PrepareWrite, PrepareRefused, InspectReached, EditFails, Polled, Places, At
    <3> QED BY <2>0, <2>8, <3>1, LockKept
            DEF PrepareWrite, PrepareRefused, InspectReached, EditFails, Polled, At, Taking, Locked, store
  <2>9. CASE TakeGuard(c)
    <3>1. sess'[c].pc = "takeover" /\ \A d \in Client : d # c => sess'[d] = sess[d]
      BY <1>1, <2>9 DEF TakeGuard, Places
    <3> QED BY <2>0, <2>9, <3>1, LockKept DEF TakeGuard, At, Taking, Locked, store
  <2>10. CASE AlreadyManaged(c) \/ Load(c)
    <3>1. sess'[c].pc = "commit" /\ \A d \in Client : d # c => sess'[d] = sess[d]
      BY <1>1, <2>10 DEF AlreadyManaged, Load, Places
    <3> QED BY <2>0, <2>10, <3>1, LockKept DEF AlreadyManaged, Load, At, Taking, Locked, store
  <2>11. CASE ProbeRefused(c)
    <3>1. /\ sess'[c].pc \in {"restore", "idle"}
          /\ \A d \in Client : d # c => sess'[d] = sess[d]
      BY <1>1, <1>2, <2>11 DEF ProbeRefused, Places
    <3> QED BY <2>0, <2>11, <3>1, LockKept DEF ProbeRefused, At, Taking, Locked, store
  <2>12. CASE GuardTimeout(c) \/ TakeoverRefused(c) \/ LoadFails(c)
    <3>1. sess'[c].pc \in {"restore", "fail"} /\ \A d \in Client : d # c => sess'[d] = sess[d]
      BY <1>3, <2>12 DEF GuardTimeout, TakeoverRefused, LoadFails
    <3> QED BY <2>0, <2>12, <3>1, LockKept
            DEF GuardTimeout, TakeoverRefused, LoadFails, At, Taking, Locked, store
  <2>13. CASE Restart(c) \/ RestartFails(c) \/ PollFails(c) \/ Restore(c)
    <3>1. /\ sess'[c].pc \in {"poll", "restore", "again", "fail"}
          /\ \A d \in Client : d # c => sess'[d] = sess[d]
      BY <1>1, <2>13 DEF Restart, RestartFails, PollFails, Restore, AfterRestore, Places
    <3> QED BY <2>0, <2>13, <3>1, LockKept
            DEF Restart, RestartFails, PollFails, Restore, At, Taking, Locked, store
  <2>14. CASE RestartAgain(c) \/ RestartAgainFails(c)
    <3>1. /\ sess'[c].pc \in {"idle", "fail"}
          /\ \A d \in Client : d # c => sess'[d] = sess[d]
      <4>1. CASE Done(c)
        BY <1>2, <4>1
      <4>2. CASE RestartAgain(c)
        BY <1>1, <1>2, <4>2 DEF RestartAgain, Places
      <4>3. CASE RestartAgainFails(c) /\ sess[c].cmd # "broken"
        BY <4>3, StepsNow DEF Now
      <4> QED BY <2>14, <4>1, <4>2, <4>3 DEF RestartAgainFails
    <3> QED BY <2>0, <2>14, <3>1, LockKept DEF RestartAgain, RestartAgainFails, At, Taking, Locked, store
  <2> QED BY <1>5, <2>1, <2>2, <2>3, <2>4, <2>5, <2>6, <2>7, <2>8, <2>9, <2>10, <2>11, <2>12, <2>13,
             <2>14 DEF Work
<1>6. CASE DeployStep
  <2>1. sess' = sess /\ dbLock' = dbLock
    BY <1>6 DEF DeployStep, DeployBegin, DeployWrite, DeployLoad, DeployLoadFails, store
  <2>2. \/ guard = None /\ guard' = "deploy" /\ deploy'.pc # "idle"
        \/ guard' = guard /\ deploy.pc # "idle" /\ deploy'.pc # "idle"
        \/ guard' = None /\ deploy.pc # "idle" /\ deploy'.pc = "idle"
    <3>1. deploy \in [pc : {"idle", "write", "load"}, sites : BOOLEAN, prev : Content]
      <4> HIDE DEF Row, Content, SessionState
      <4> QED BY DEF TypeInv
    <3> HIDE DEF Content
    <3>2. CASE DeployBegin
      BY <3>1, <3>2 DEF DeployBegin
    <3>3. CASE DeployWrite
      BY <3>1, <3>3 DEF DeployWrite
    <3>4. CASE DeployLoad \/ DeployLoadFails
      BY <3>1, <3>4 DEF DeployLoad, DeployLoadFails
    <3> QED BY <1>6, <3>2, <3>3, <3>4 DEF DeployStep
  <2> QED BY <2>1, <2>2 DEF LockInv
<1>7. CASE CaddyStops \/ CaddyStarts \/ UNCHANGED vars
  <2>1. UNCHANGED <<sess, dbLock, guard, deploy>>
    BY <1>7 DEF CaddyStops, CaddyStarts, vars, store
  <2> QED BY <2>1 DEF LockInv
<1> QED BY <1>4, <1>5, <1>6, <1>7 DEF Next

LEMMA InitHolds == Init => TypeInv /\ LockInv /\ Edited
<1> SUFFICES ASSUME Init PROVE TypeInv /\ LockInv /\ Edited
  OBVIOUS
<1>1. \A c \in Client : sess[c] = Idle
  BY DEF Init
<1>2. TypeInv
  <2>1. db \in [row : Row, settings : {"default", "wizard"}, sites : BOOLEAN, snapshot : BOOLEAN]
    <3>1. db = [row |-> FreshRow, settings |-> "default", sites |-> FALSE, snapshot |-> FALSE]
      BY DEF Init
    <3> HIDE DEF Row, FreshRow
    <3> QED BY <3>1, Values
  <2>2. file \in Own \cup {Absent} /\ file \in Content /\ original = file /\ backups = {}
    BY Values DEF Init, Own
  <2>3. caddy \in [up : BOOLEAN, runs : Content]
    <3> DEFINE x == IF file = Absent THEN Starter ELSE file
    <3>1. x \in Content
      BY <2>2, Values
    <3>2. caddy = [up |-> TRUE, runs |-> x]
      BY DEF Init
    <3> HIDE DEF x, Content
    <3> QED BY <3>1, <3>2
  <2>4. sess \in [Client -> SessionState]
    <3>1. sess = [c \in Client |-> Idle]
      BY DEF Init
    <3> HIDE DEF SessionState, Idle
    <3> QED BY <3>1, Values
  <2>5. deploy \in [pc : {"idle", "write", "load"}, sites : BOOLEAN, prev : Content]
    <3>1. deploy = [pc |-> "idle", sites |-> FALSE, prev |-> Absent]
      BY DEF Init
    <3> HIDE DEF Content, Absent
    <3> QED BY <3>1, Values
  <2>6. accounted \in BOOLEAN /\ uncovered \in BOOLEAN
    BY DEF Init
  <2> HIDE DEF Row, Content, SessionState, Own, Absent
  <2> QED BY <2>1, <2>2, <2>3, <2>4, <2>5, <2>6 DEF TypeInv
<1>3. LockInv
  <2>1. guard = None /\ deploy.pc = "idle"
    BY DEF Init
  <2> QED BY <1>1, <2>1, Values DEF LockInv
<1>4. Edited
  BY <1>1, Values DEF Edited
<1> QED BY <1>2, <1>3, <1>4

LEMMA Invariants == Spec => [](TypeInv /\ LockInv /\ Edited)
<1>1. TypeInv /\ LockInv /\ Edited /\ [Next]_vars => (TypeInv /\ LockInv /\ Edited)'
  BY TypeStep, LockStep, EditedStep
<1> QED BY <1>1, InitHolds, PTL DEF Spec

\* Whatever requests, deployments and stops of Caddy do, the wizard's values are
\* of their types; the operation guard has one holder, the request that takes over
\* or the deployment; and a request on its way from the starter file to the
\* commit has the write lock.
THEOREM TypeCorrect == Spec => []TypeOK
<1>1. TypeInv /\ LockInv => TypeOK
  <2> HIDE DEF Row, Content, SessionState
  <2> QED BY DEF TypeInv, LockInv, TypeOK
<1> QED BY <1>1, Invariants, PTL
-----------------------------------------------------------------------------
(***************************************************************************)
(* A loss names its backup.                                                *)
(***************************************************************************)
NamesLoss(r, s) == r.lost => r.backup \in s

\* On a host that had a file there always is one, and who may put an older file
\* back has it in a backup.
LossInv ==
    original # Absent =>
        /\ file # Absent
        /\ deploy.pc = "load" => deploy.prev # Absent
        /\ NamesLoss(db.row, backups)
        /\ \A c \in Client :
             /\ NamesLoss(sess[c].row, backups)
             /\ sess[c].pc \in {"lock", "prepare"} => ~sess[c].row.lost
             /\ sess[c].was # None => sess[c].was # Absent /\ sess[c].was \in backups
             /\ sess[c].pc = "replace" => sess[c].prev # Absent /\ sess[c].prev \in backups
             /\ sess[c].pc = "load" => sess[c].prev # Absent

\* A step of request c, said by what c is afterwards.
LEMMA LossKept ==
    ASSUME LossInv, original # Absent, original' = original, deploy' = deploy, file' # Absent,
           backups \subseteq backups', NamesLoss(db'.row, backups'),
           NEW c \in Client, NEW p, NEW m, NEW r, NEW w, NEW q, NEW i, Now(c, p, m, r, w, q, i),
           NamesLoss(r, backups'),
           p \in {"lock", "prepare"} => ~r.lost,
           w # None => w # Absent /\ w \in backups',
           p = "replace" => q # Absent /\ q \in backups',
           p = "load" => q # Absent
    PROVE  LossInv'
<1>1. ASSUME NEW d \in Client
      PROVE  /\ NamesLoss(sess'[d].row, backups')
             /\ sess'[d].pc \in {"lock", "prepare"} => ~sess'[d].row.lost
             /\ sess'[d].was # None => sess'[d].was # Absent /\ sess'[d].was \in backups'
             /\ sess'[d].pc = "replace" => sess'[d].prev # Absent /\ sess'[d].prev \in backups'
             /\ sess'[d].pc = "load" => sess'[d].prev # Absent
  <2>1. CASE d = c
    BY <2>1 DEF Now
  <2>2. CASE d # c
    BY <2>2 DEF Now, LossInv, NamesLoss
  <2> QED BY <2>1, <2>2
<1>2. deploy'.pc = "load" => deploy'.prev # Absent
  BY DEF LossInv
<1> QED BY <1>1, <1>2 DEF LossInv, NamesLoss

LEMMA LossDone ==
    ASSUME TypeInv, LossInv, original # Absent, original' = original, deploy' = deploy, file' = file,
           backups' = backups, NamesLoss(db'.row, backups), NEW c \in Client, Done(c)
    PROVE  LossInv'
<1>1. Now(c, "idle", None, FreshRow, None, Absent, FALSE)
  BY DoneNow
<1>2. NamesLoss(FreshRow, backups')
  BY Values DEF NamesLoss
<1>3. file' # Absent
  BY DEF LossInv
<1> HIDE DEF Absent, FreshRow
<1> QED BY <1>1, <1>2, <1>3, LossKept

LEMMA LossGoto ==
    ASSUME TypeInv, LossInv, original # Absent, original' = original, deploy' = deploy, file' # Absent,
           backups' = backups, db' = db, NEW c \in Client,
           NEW p \in Places \ {"replace", "load", "lock"}, Goto(c, p), p = "prepare" => ~sess[c].row.lost
    PROVE  LossInv'
<1>1. Now(c, p, sess[c].cmd, sess[c].row, sess[c].was, sess[c].prev, sess[c].imports)
  BY GotoNow
<1>2. /\ NamesLoss(sess[c].row, backups') /\ NamesLoss(db'.row, backups')
      /\ sess[c].was # None => sess[c].was # Absent /\ sess[c].was \in backups'
  BY DEF LossInv
<1> HIDE DEF Absent, Places
<1> QED BY <1>1, <1>2, LossKept

LEMMA LossWork ==
    ASSUME TypeInv, Edited, LossInv, NEW c \in Client, Work(c), original # Absent
    PROVE  LossInv'
<1>0. /\ original' = original /\ deploy' = deploy /\ file # Absent
      /\ NamesLoss(db.row, backups) /\ NamesLoss(sess[c].row, backups)
      /\ db \in [row : Row, settings : {"default", "wizard"}, sites : BOOLEAN, snapshot : BOOLEAN]
      /\ sess[c].row \in Row /\ sess[c].row.lost \in BOOLEAN
      /\ sess[c].row.backup \in Content \cup {None}
      /\ sess[c].was \in Content \cup {None} /\ sess[c].prev \in Content
  <2>1. \A r \in Row : r.lost \in BOOLEAN /\ r.backup \in Content \cup {None}
    <3> HIDE DEF Content
    <3> QED BY DEF Row
  <2> HIDE DEF Row, Content
  <2> QED BY <2>1, Fields, WorkRest DEF LossInv, TypeInv
<1> HIDE DEF Row, Content
<1>1. CASE Save(c) \/ LockAndEnd(c) \/ Commit(c) \/ Fail(c)
  <2>1. Done(c) /\ file' = file /\ backups' = backups
    BY <1>1 DEF Save, LockAndEnd, Commit, Fail, disk
  <2>2. NamesLoss(db'.row, backups)
    <3>1. ASSUME NEW r \in Row, NEW b \in Content \cup {None}
          PROVE  /\ Completed(r).lost = r.lost /\ Completed(r).backup = r.backup
                 /\ \A l \in BOOLEAN : FailedRow(r, l, b).lost = l /\ FailedRow(r, l, b).backup = b
      BY DEF Row, Completed, FailedRow
    <3>2. /\ NamesLoss(Completed(sess[c].row), backups)
          /\ NamesLoss(FailedRow(sess[c].row, sess[c].row.lost, sess[c].row.backup), backups)
      BY <1>0, <3>1 DEF NamesLoss
    <3> DEFINE x == Completed(sess[c].row)
               y == FailedRow(sess[c].row, sess[c].row.lost, sess[c].row.backup)
    <3> HIDE DEF x, y
    <3>3. db'.row \in {sess[c].row, x, y}
      <4>1. CASE Save(c)
        BY <1>0, <4>1 DEF Save
      <4>2. CASE LockAndEnd(c)
        <5>1. \/ db' = [db EXCEPT !.row = sess[c].row]
              \/ db' = [[db EXCEPT !.row = x] EXCEPT !.settings = "wizard"]
          BY <4>2 DEF LockAndEnd, x
        <5>2. \A z : [db EXCEPT !.row = z].row = z /\ [[db EXCEPT !.row = z] EXCEPT !.settings = "wizard"].row = z
          BY <1>0
        <5> QED BY <5>1, <5>2
      <4>3. CASE Commit(c)
        BY <4>3 DEF Commit, x
      <4>4. CASE Fail(c)
        BY <1>0, <4>4 DEF Fail, y
      <4> QED BY <1>1, <4>1, <4>2, <4>3, <4>4
    <3> QED BY <1>0, <3>2, <3>3 DEF x, y
  <2> QED BY <1>0, <2>1, <2>2, LossDone
<1>2. CASE Done(c) /\ UNCHANGED <<db, disk>>
  BY <1>0, <1>2, LossDone DEF disk
<1>3. CASE \/ TakeGuard(c) \/ AlreadyManaged(c) \/ Load(c) \/ InspectReached(c) \/ EditFails(c)
           \/ Restart(c) \/ RestartFails(c) \/ Polled(c) \/ PollFails(c) \/ PrepareRefused(c)
  <2>1. /\ UNCHANGED <<db, disk>>
        /\ \E p \in {"takeover", "commit", "probe", "fail", "poll", "restore"} : Goto(c, p)
    BY <1>3 DEF TakeGuard, AlreadyManaged, Load, InspectReached, EditFails, Restart, RestartFails,
                Polled, PollFails, PrepareRefused, store
  <2> QED BY <1>0, <2>1, LossGoto DEF Places, disk
<1>4. CASE Lock(c)
  <2>1. /\ UNCHANGED <<db, disk>> /\ ~sess[c].row.lost
        /\ \E p \in {"prepare", "guard"} : Goto(c, p)
    BY <1>4 DEF Lock, LossInv, At
  <2> QED BY <1>0, <2>1, LossGoto DEF Places, disk
<1>5. CASE GuardTimeout(c) \/ TakeoverRefused(c) \/ LoadFails(c)
  <2>1. /\ UNCHANGED <<db, backups>> /\ (file' = file \/ LoadFails(c))
        /\ \E p \in {"restore", "fail"} : Goto(c, p)
    BY <1>5 DEF GuardTimeout, TakeoverRefused, LoadFails, Undo, store, disk
  <2>2. LoadFails(c) => file' # Absent
    BY <1>0 DEF LoadFails, LossInv, At
  <2> QED BY <1>0, <2>1, <2>2, LossGoto DEF Places
<1>6. CASE PrepareWrite(c)
  <2>1. UNCHANGED <<db, backups>> /\ file' = Starter /\ Goto(c, "guard")
    BY <1>6 DEF PrepareWrite, store
  <2>2. Starter # Absent
    BY DEF Starter, Absent
  <2> QED BY <1>0, <2>1, <2>2, LossGoto DEF Places
<1>7. CASE Restore(c)
  <2>1. UNCHANGED <<db, backups>> /\ file' = sess[c].was /\ \E p \in {"again", "fail"} : Goto(c, p)
    BY <1>7 DEF Restore, AfterRestore, store
  <2>2. sess[c].was # Absent
    BY <1>7 DEF Restore, At, Edited, LossInv
  <2> QED BY <1>0, <2>1, <2>2, LossGoto DEF Places
<1>8. CASE ProbeRefused(c) \/ RestartAgain(c)
  <2>1. UNCHANGED <<db, disk>> /\ (Done(c) \/ \E p \in {"restore", "fail"} : Goto(c, p))
    BY <1>8 DEF ProbeRefused, RestartAgain, store
  <2> QED BY <1>0, <1>2, <2>1, LossGoto DEF Places, disk
<1>9. CASE InspectRefused(c)
  BY <1>2, <1>9 DEF InspectRefused, store
<1>10. CASE SaveBusy(c)
  <2>1. UNCHANGED <<db, disk>>
    BY <1>10 DEF SaveBusy, store
  <2>2. CASE At(c, "save") /\ sess[c].was # None
    <3>1. Now(c, "restore", "broken", sess[c].row, sess[c].was, sess[c].prev, sess[c].imports)
      BY <1>10, <2>2, StepsNow
    <3>2. sess[c].was # Absent /\ sess[c].was \in backups
      BY <2>2 DEF LossInv
    <3> HIDE DEF Absent
    <3> QED BY <1>0, <2>1, <3>1, <3>2, LossKept DEF disk
  <2> QED BY <1>2, <1>10, <2>1, <2>2 DEF SaveBusy
<1>11. CASE Probe(c)
  <2>1. UNCHANGED <<db, disk>>
    BY <1>11 DEF Probe, store
  <2>2. PICK p \in {"lock", "save"}, r \in Row :
           ~r.lost /\ Now(c, p, sess[c].cmd, r, sess[c].was, sess[c].prev, sess[c].imports)
    BY <1>11, ProbeNow
  <2>3. sess[c].was # None => sess[c].was # Absent /\ sess[c].was \in backups
    BY DEF LossInv
  <2> HIDE DEF Absent
  <2> QED BY <1>0, <2>1, <2>2, <2>3, LossKept DEF disk, NamesLoss
<1>12. CASE PrepareBackup(c)
  <2> DEFINE r == [sess[c].row EXCEPT !.backup = IF file = Absent THEN None ELSE file]
  <2>1. db' = db /\ backups' = backups \cup {file} /\ file' = file
    BY <1>0, <1>12 DEF PrepareBackup, store
  <2>2. Now(c, "prepare", sess[c].cmd, r, file, sess[c].prev, sess[c].imports)
    BY <1>12, StepsNow
  <2>3. ~r.lost
    BY <1>0, <1>12, RowEdits DEF PrepareBackup, At, LossInv
  <2> HIDE DEF r, Absent
  <2> QED BY <1>0, <2>1, <2>2, <2>3, LossKept DEF NamesLoss
<1>13. CASE PrepareFails(c)
  <2> DEFINE r == [sess[c].row EXCEPT !.backup = None]
  <2>1. UNCHANGED <<db, disk>>
    BY <1>13 DEF PrepareFails, store
  <2>2. Now(c, "fail", sess[c].cmd, r, None, sess[c].prev, sess[c].imports)
    BY <1>13, StepsNow
  <2>3. ~r.lost
    BY <1>0, <1>13, RowEdits DEF PrepareFails, At, LossInv
  <2> HIDE DEF r, Absent
  <2> QED BY <1>0, <2>1, <2>2, <2>3, LossKept DEF disk, NamesLoss
<1>14. CASE TakeOver(c)
  <2>1. db' = db /\ backups' = backups /\ file' # Absent
    BY <1>14 DEF TakeOver, store, Managed, Absent
  <2>2. Now(c, "load", sess[c].cmd, sess[c].row, sess[c].was, file, file.sites)
    BY <1>14, StepsNow
  <2>3. sess[c].was # None => sess[c].was # Absent /\ sess[c].was \in backups
    BY DEF LossInv
  <2> HIDE DEF Absent
  <2> QED BY <1>0, <2>1, <2>2, <2>3, LossKept
<1>15. CASE EditBackup(c)
  <2>1. db' = db /\ backups' = backups \cup {file} /\ file' = file
    BY <1>15 DEF EditBackup, store
  <2>2. Now(c, "replace", sess[c].cmd, sess[c].row, sess[c].was, file, sess[c].imports)
    BY <1>15, StepsNow
  <2>3. sess[c].was # None => sess[c].was # Absent /\ sess[c].was \in backups
    BY DEF LossInv
  <2> HIDE DEF Absent
  <2> QED BY <1>0, <2>1, <2>2, <2>3, LossKept DEF NamesLoss
<1>16. CASE EditWrite(c)
  <2>1. db' = db /\ backups' = backups
    BY <1>16 DEF EditWrite, store
  <2>2. file' # Absent
    <3>1. file' = [sess[c].prev EXCEPT !.admin = TRUE]
      BY <1>16 DEF EditWrite
    <3>2. file'.admin = TRUE /\ Absent.admin = FALSE
      BY <1>0, <3>1 DEF Content, Absent
    <3> QED BY <3>2
  <2>3. Now(c, "restart", sess[c].cmd, sess[c].row, sess[c].prev, sess[c].prev, sess[c].imports)
    BY <1>16, StepsNow
  <2>4. sess[c].prev # Absent /\ sess[c].prev \in backups
    BY <1>16 DEF EditWrite, At, LossInv
  <2> HIDE DEF Absent
  <2> QED BY <1>0, <2>1, <2>2, <2>3, <2>4, LossKept
<1>17. CASE RestoreFails(c) \/ (RestartAgainFails(c) /\ sess[c].cmd # "broken")
  <2>1. UNCHANGED <<db, disk>>
    BY <1>17 DEF RestoreFails, RestartAgainFails, store
  <2>2. Now(c, "fail", sess[c].cmd, Loss(sess[c].row, sess[c].was), sess[c].was, sess[c].prev, sess[c].imports)
    BY <1>17, StepsNow
  <2>3. sess[c].was # Absent /\ sess[c].was \in backups
    BY <1>17 DEF RestoreFails, RestartAgainFails, At, Edited, LossInv
  <2>4. NamesLoss(Loss(sess[c].row, sess[c].was), backups)
    <3>1. Loss(sess[c].row, sess[c].was).backup = sess[c].was
      <4>1. sess[c].row \in Row /\ sess[c].was \in Content \cup {None} /\ sess[c].was # Absent
        BY <1>0, <2>3
      <4> QED BY <4>1, LossRow
    <3> QED BY <2>3, <3>1 DEF NamesLoss
  <2> HIDE DEF Absent
  <2> QED BY <1>0, <2>1, <2>2, <2>3, <2>4, LossKept DEF disk
<1>18. CASE RestartAgainFails(c) /\ sess[c].cmd = "broken"
  BY <1>2, <1>18 DEF RestartAgainFails, store
<1> QED BY <1>1, <1>3, <1>4, <1>5, <1>6, <1>7, <1>8, <1>9, <1>10, <1>11, <1>12, <1>13, <1>14, <1>15,
           <1>16, <1>17, <1>18 DEF Work

LEMMA LossStep ==
    ASSUME TypeInv, Edited, LossInv, [Next]_vars
    PROVE  LossInv'
<1>1. original' = original
  BY WorkRest DEF Next, Asks, AskReset, AskLocation, AskMode, AskPreflight, AskExecute, AskEnable, Ask,
                  DeployStep, DeployBegin, DeployWrite, DeployLoad, DeployLoadFails,
         CaddyStops, CaddyStarts, history, vars
<1>2. CASE original = Absent
  BY <1>1, <1>2 DEF LossInv
<1> SUFFICES ASSUME original # Absent PROVE LossInv'
  BY <1>2
<1>3. ASSUME NEW c \in Client, Asks(c)
      PROVE  LossInv'
  <2>1. PICK m \in Commands, p \in {"save", "probe", "inspect"}, r \in Row :
           Ask(c, m, p, r) /\ (r = db.row \/ ~r.lost)
    <3>1. db.row \in Row
      <4> HIDE DEF Row
      <4> QED BY DEF TypeInv
    <3>2. /\ FreshRow \in Row /\ ~FreshRow.lost
          /\ \A m \in Modes : LET y == [FreshRow EXCEPT !.status = "in_progress", !.mode = m]
                             IN  y \in Row /\ ~y.lost
      BY DEF FreshRow, Row
    <3> HIDE DEF Row
    <3> QED BY <1>3, <3>1, <3>2 DEF Asks, AskReset, AskLocation, AskMode, AskPreflight, AskExecute,
                                    AskEnable, Commands
  <2>2. Now(c, p, m, r, None, Absent, FALSE)
    <3>1. p \in Places
      BY DEF Places
    <3> HIDE DEF Places, Commands, Row, Absent
    <3> QED BY <2>1, <3>1, AskNow
  <2>3. UNCHANGED <<db, file, backups, deploy>>
    BY <2>1 DEF Ask, store, disk
  <2>4. NamesLoss(r, backups) /\ NamesLoss(db.row, backups) /\ file # Absent
    BY <2>1 DEF LossInv, NamesLoss
  <2> HIDE DEF Absent, Row, Commands
  <2> QED BY <1>1, <2>2, <2>3, <2>4, LossKept
<1>4. CASE DeployStep
  <2>1. UNCHANGED <<db, sess, backups>>
    BY <1>4 DEF DeployStep, DeployBegin, DeployWrite, DeployLoad, DeployLoadFails, store, disk
  <2>2. \A b : Managed(b) # Absent
    BY DEF Managed, Absent
  <2>3. deploy \in [pc : {"idle", "write", "load"}, sites : BOOLEAN, prev : Content]
    <3> HIDE DEF Row, Content, SessionState
    <3> QED BY DEF TypeInv
  <2> HIDE DEF Content, Absent, Managed
  <2>4. file' # Absent /\ (deploy'.pc = "load" => deploy'.prev # Absent)
    <3>1. CASE DeployBegin
      BY <3>1 DEF DeployBegin, disk, LossInv
    <3>2. CASE DeployWrite
      BY <2>2, <2>3, <3>2 DEF DeployWrite, LossInv
    <3>3. CASE DeployLoad \/ DeployLoadFails
      BY <2>3, <3>3 DEF DeployLoad, DeployLoadFails, disk, LossInv
    <3> QED BY <1>4, <3>1, <3>2, <3>3 DEF DeployStep
  <2> QED BY <2>1, <2>4 DEF LossInv, NamesLoss
<1>5. CASE CaddyStops \/ CaddyStarts \/ UNCHANGED vars
  <2>1. UNCHANGED <<db, sess, deploy, file, backups, original>>
    BY <1>5 DEF CaddyStops, CaddyStarts, store, disk, history, vars
  <2> QED BY <2>1 DEF LossInv, NamesLoss
<1> QED BY <1>3, <1>4, <1>5, LossWork DEF Next

\* A row that says the Caddyfile could not be restored names a backup of it,
\* whatever repairs and takeovers cross: the message that sends the operator to the
\* backup never sends him to a file that is not there.
THEOREM LossIsNamed == Spec => []LossNamesBackup
<1>1. Init => LossInv
  <2> SUFFICES ASSUME Init PROVE LossInv
    OBVIOUS
  <2>1. /\ \A c \in Client : sess[c] = Idle
        /\ file = original /\ deploy.pc = "idle" /\ db.row = FreshRow
    BY DEF Init
  <2> QED BY <2>1, Values DEF LossInv, NamesLoss
<1>2. TypeInv /\ Edited /\ LossInv /\ [Next]_vars => LossInv'
  BY LossStep
<1>3. LossInv => LossNamesBackup
  BY DEF LossInv, NamesLoss, LossNamesBackup
<1> QED BY <1>1, <1>2, <1>3, Invariants, PTL DEF Spec
-----------------------------------------------------------------------------
(***************************************************************************)
(* The operator's file is kept.                                            *)
(***************************************************************************)
\* Once true it stays true: backups are not removed, and a request that has
\* loaded the managed file can only commit.
Saved ==
    \/ backups \cap Own # {}
    \/ db.snapshot
    \/ \E c \in Client : At(c, "commit") /\ sess[c].imports

\* Until then the file is the operator's, but for the takeover that has just
\* written the managed one, and nobody else has an older file in hand.
KeptInv ==
    original # Absent /\ ~uncovered /\ ~Saved =>
        /\ file \notin Own => \E c \in Client : At(c, "load") /\ sess[c].imports
        /\ \A c \in Client :
             /\ sess[c].was = None /\ ~At(c, "replace")
             /\ At(c, "load") => sess[c].prev \in Own /\ sess[c].imports
        /\ deploy.pc = "idle"

LEMMA SavedStays ==
    ASSUME TypeInv, NEW c \in Client, Work(c), \A d \in Client : d # c => sess'[d] = sess[d], Saved
    PROVE  Saved'
<1>1. backups \subseteq backups'
  BY DEF Work, Save, SaveBusy, Probe, ProbeRefused, Lock, LockAndEnd, PrepareBackup,
           PrepareRefused, PrepareWrite,
         PrepareFails, TakeGuard, GuardTimeout, AlreadyManaged, TakeoverRefused, TakeOver, Load,
         LoadFails, Commit, Fail, InspectRefused, InspectReached, EditBackup, EditWrite, EditFails,
         Restart, RestartFails, Polled, PollFails, Restore, RestoreFails, RestartAgain,
         RestartAgainFails, disk
<1>2. db.snapshot => db'.snapshot
  <2>1. CASE Save(c) \/ LockAndEnd(c) \/ Fail(c)
    <3>1. db \in [row : Row, settings : {"default", "wizard"}, sites : BOOLEAN, snapshot : BOOLEAN]
      <4> HIDE DEF Row, Content, SessionState
      <4> QED BY DEF TypeInv
    <3> HIDE DEF Row
    <3>2. ASSUME NEW x
          PROVE  /\ [db EXCEPT !.row = x].snapshot = db.snapshot
                 /\ [[db EXCEPT !.row = x] EXCEPT !.settings = "wizard"].snapshot = db.snapshot
      BY <3>1
    <3>3. \E x : \/ db' = [db EXCEPT !.row = x]
                \/ db' = [[db EXCEPT !.row = x] EXCEPT !.settings = "wizard"]
      BY <2>1 DEF Save, LockAndEnd, Fail
    <3> QED BY <3>2, <3>3
  <2>2. CASE Commit(c)
    BY <2>2 DEF Commit
  <2>3. Save(c) \/ LockAndEnd(c) \/ Fail(c) \/ Commit(c) \/ db' = db
    BY DEF Work, SaveBusy, Probe, ProbeRefused, Lock, PrepareBackup, PrepareRefused,
           PrepareWrite, PrepareFails,
           TakeGuard, GuardTimeout, AlreadyManaged, TakeoverRefused, TakeOver, Load, LoadFails,
           InspectRefused, InspectReached, EditBackup, EditWrite, EditFails, Restart, RestartFails,
           Polled, PollFails, Restore, RestoreFails, RestartAgain, RestartAgainFails, store
  <2> QED BY <2>1, <2>2, <2>3
<1>3. ASSUME At(c, "commit"), sess[c].imports
      PROVE  db'.snapshot
  <2>1. Commit(c)
    BY <1>3 DEF At, Work, Save, SaveBusy, Probe, ProbeRefused, Lock, LockAndEnd, PrepareBackup, PrepareRefused,
           PrepareWrite, PrepareFails, TakeGuard, GuardTimeout, AlreadyManaged, TakeoverRefused,
           TakeOver, Load, LoadFails, Fail, InspectRefused, InspectReached, EditBackup, EditWrite,
           EditFails, Restart, RestartFails, Polled, PollFails, Restore, RestoreFails, RestartAgain,
           RestartAgainFails
  <2> QED BY <1>3, <2>1 DEF Commit
<1> QED BY <1>1, <1>2, <1>3 DEF Saved, At

LEMMA OthersStay ==
    ASSUME TypeInv, NEW c \in Client, Work(c)
    PROVE  \A d \in Client : d # c => sess'[d] = sess[d]
<1> DEFINE Change == \E y : sess' = [sess EXCEPT ![c] = y]
<1>1. CASE \/ Save(c) \/ SaveBusy(c) \/ LockAndEnd(c) \/ Commit(c) \/ Fail(c) \/ InspectRefused(c)
           \/ ProbeRefused(c) \/ RestartAgain(c) \/ RestartAgainFails(c)
  <2>1. Change
    BY <1>1 DEF Save, SaveBusy, LockAndEnd, Commit, Fail, InspectRefused, ProbeRefused, RestartAgain,
                RestartAgainFails, Goto, Done
  <2> QED BY <2>1 DEF TypeInv
<1>2. CASE \/ Probe(c) \/ PrepareBackup(c) \/ PrepareFails(c) \/ TakeOver(c) \/ EditBackup(c)
           \/ EditWrite(c) \/ RestoreFails(c)
  <2>1. Change
    BY <1>2 DEF Probe, PrepareBackup, PrepareFails, TakeOver, EditBackup, EditWrite, RestoreFails
  <2> QED BY <2>1 DEF TypeInv
<1>3. CASE \/ Lock(c) \/ PrepareWrite(c) \/ TakeGuard(c) \/ GuardTimeout(c) \/ AlreadyManaged(c)
           \/ TakeoverRefused(c) \/ Load(c) \/ LoadFails(c) \/ InspectReached(c) \/ EditFails(c)
           \/ Restart(c) \/ RestartFails(c) \/ Polled(c) \/ PollFails(c) \/ Restore(c) \/ PrepareRefused(c)
  <2>1. Change
    BY <1>3 DEF Lock, PrepareRefused, PrepareWrite, TakeGuard, GuardTimeout, AlreadyManaged, TakeoverRefused, Load,
                LoadFails, InspectReached, EditFails, Restart, RestartFails, Polled, PollFails, Restore,
                Goto, Undo
  <2> QED BY <2>1 DEF TypeInv
<1> QED BY <1>1, <1>2, <1>3 DEF Work

LEMMA KeptWork ==
    ASSUME TypeInv, LockInv, Edited, KeptInv, NEW c \in Client, Work(c)
    PROVE  KeptInv'
<1>1. UNCHANGED <<deploy, original>>
  BY WorkRest
<1> SUFFICES ASSUME original # Absent, ~uncovered', ~Saved'
             PROVE  /\ file' \notin Own => \E d \in Client : At(d, "load")' /\ sess'[d].imports
                    /\ \A d \in Client :
                         /\ sess'[d].was = None /\ sess'[d].pc # "replace"
                         /\ At(d, "load")' => sess'[d].prev \in Own /\ sess'[d].imports
                    /\ deploy'.pc = "idle"
  BY <1>1 DEF KeptInv, At
<1>2. ~uncovered /\ (uncovered' = Overlaps(c) => \A d \in Client \ {c} : sess[d].pc # "load")
  <2>1. \/ uncovered' = uncovered \/ uncovered' = Overlaps(c)
        \/ uncovered' = (uncovered \/ sess[c].was = None)
    BY DEF Work, Save, SaveBusy, Probe, ProbeRefused, Lock, LockAndEnd, PrepareBackup,
           PrepareRefused, PrepareWrite,
           PrepareFails, TakeGuard, GuardTimeout, AlreadyManaged, TakeoverRefused, TakeOver, Load,
           LoadFails, Commit, Fail, InspectRefused, InspectReached, EditBackup, EditWrite, EditFails,
           Restart, RestartFails, Polled, PollFails, Restore, RestoreFails, RestartAgain,
           RestartAgainFails, history
  <2>2. CASE uncovered' = uncovered \/ uncovered' = (uncovered \/ sess[c].was = None)
    <3>1. ~uncovered
      BY <2>2
    <3>2. uncovered' = Overlaps(c) => ~Overlaps(c)
      OBVIOUS
    <3> QED BY <3>1, <3>2 DEF Overlaps, Holding
  <2>3. CASE uncovered' = Overlaps(c)
    <3>1. ~Overlaps(c)
      BY <2>3
    <3> QED BY <3>1 DEF Overlaps, Holding
  <2> QED BY <2>1, <2>2, <2>3
<1>3. \A d \in Client : d # c => sess'[d] = sess[d]
  BY OthersStay
<1>4. ~Saved
  BY <1>3, SavedStays
<1>5. /\ file \notin Own => \E d \in Client : sess[d].pc = "load" /\ sess[d].imports
      /\ \A d \in Client :
           /\ sess[d].was = None /\ sess[d].pc # "replace"
           /\ sess[d].pc = "load" => sess[d].prev \in Own /\ sess[d].imports
      /\ deploy.pc = "idle"
  BY <1>2, <1>4 DEF KeptInv, At
\* The operator's file is in no backup, and no takeover of it is about to commit.
<1>6. /\ backups' \cap Own = {}
      /\ ~(sess'[c].pc = "commit" /\ sess'[c].imports)
  BY DEF Saved, At
<1>7. ASSUME sess[c].pc # "load", file' = file, sess'[c].was = None,
             sess'[c].pc \notin {"replace", "load"}
      PROVE  /\ file' \notin Own => \E d \in Client : At(d, "load")' /\ sess'[d].imports
             /\ \A d \in Client :
                  /\ sess'[d].was = None /\ sess'[d].pc # "replace"
                  /\ At(d, "load")' => sess'[d].prev \in Own /\ sess'[d].imports
             /\ deploy'.pc = "idle"
  BY <1>1, <1>3, <1>5, <1>7 DEF At
<1>8. ASSUME NEW p \in Places \ {"replace", "load"}, Goto(c, p), sess[c].pc # "load", file' = file
      PROVE  sess'[c].was = None /\ sess'[c].pc \notin {"replace", "load"}
  BY <1>5, <1>8, GotoNow DEF Now
<1>9. ASSUME Done(c)
      PROVE  sess'[c].was = None /\ sess'[c].pc \notin {"replace", "load"}
  BY <1>9, DoneNow DEF Now
<1>10. CASE Save(c) \/ SaveBusy(c) \/ LockAndEnd(c) \/ Commit(c) \/ Fail(c) \/ InspectRefused(c)
            \/ ProbeRefused(c)
  <2>1. Done(c) /\ file' = file /\ sess[c].pc # "load"
    BY <1>5, <1>10 DEF Save, SaveBusy, LockAndEnd, Commit, Fail, InspectRefused, ProbeRefused, At, disk
  <2> QED BY <1>7, <1>9, <2>1
<1>11. CASE Lock(c) \/ TakeGuard(c) \/ GuardTimeout(c) \/ AlreadyManaged(c) \/ TakeoverRefused(c)
            \/ InspectReached(c) \/ PrepareRefused(c)
  <2>1. /\ file' = file /\ sess[c].pc # "load"
        /\ \E p \in {"prepare", "guard", "takeover", "restore", "fail", "commit", "probe"} : Goto(c, p)
    BY <1>11 DEF Lock, TakeGuard, GuardTimeout, AlreadyManaged, TakeoverRefused, InspectReached,
                 PrepareRefused, Undo, At, disk
  <2> QED BY <1>7, <1>8, <2>1 DEF Places
<1>12. CASE Probe(c)
  <2>1. file' = file /\ sess[c].pc # "load"
    BY <1>12 DEF Probe, At, disk
  <2>2. sess'[c].was = None /\ sess'[c].pc \in {"lock", "save"}
    BY <1>5, <1>12, ProbeNow DEF Now
  <2> QED BY <1>7, <2>1, <2>2
\* The starter file and the directive come after a backup of the operator's file.
<1>13. CASE PrepareBackup(c) \/ EditBackup(c)
  <2>1. file \in Own
    <3>1. CASE PrepareBackup(c)
      <4>1. sess[c].pc = "prepare"
        BY <3>1 DEF PrepareBackup, At
      <4>2. ASSUME NEW d \in Client, sess[d].pc = "load"
            PROVE  FALSE
        BY <4>1, <4>2 DEF LockInv
      <4> QED BY <1>5, <4>2
    <3>2. CASE EditBackup(c)
      BY <1>2, <1>5, <3>2 DEF EditBackup, At
    <3> QED BY <1>13, <3>1, <3>2
  <2>2. file # Absent
    BY <2>1 DEF Own, Absent
  <2>3. file \in backups'
    BY <1>13, <2>2 DEF PrepareBackup, EditBackup
  <2> QED BY <1>6, <2>1, <2>3
<1>14. CASE TakeOver(c)
  <2>1. file \in Own
    <3>1. guard = c
      BY <1>14 DEF TakeOver, At, LockInv
    <3>2. ASSUME NEW d \in Client, sess[d].pc = "load"
          PROVE  FALSE
      <4>1. guard = d
        BY <3>2 DEF LockInv
      <4> QED BY <1>14, <3>1, <3>2, <4>1 DEF TakeOver, At
    <3> QED BY <1>5, <3>2
  <2>2. Now(c, "load", sess[c].cmd, sess[c].row, sess[c].was, file, file.sites)
    BY <1>14, StepsNow
  <2>3. /\ sess'[c].pc = "load" /\ sess'[c].imports /\ sess'[c].prev \in Own /\ sess'[c].was = None
    BY <1>5, <2>1, <2>2 DEF Now, Own
  <2> QED BY <1>1, <1>3, <1>5, <2>3 DEF At
<1>15. CASE Load(c)
  <2>1. Goto(c, "commit") /\ sess[c].pc = "load"
    BY <1>15 DEF Load, At
  <2>2. sess'[c].pc = "commit" /\ sess'[c].imports
    BY <1>5, <2>1, GotoNow DEF Now, Places
  <2> QED BY <1>6, <2>2
<1>16. CASE LoadFails(c)
  <2>1. Goto(c, "fail") /\ sess[c].pc = "load" /\ file' = sess[c].prev
    <3>1. sess[c].was = None
      BY <1>5
    <3> QED BY <1>16, <3>1 DEF LoadFails, Undo, At
  <2>2. sess'[c].pc = "fail" /\ sess'[c].was = None
    BY <1>5, <2>1, GotoNow DEF Now, Places
  <2> QED BY <1>1, <1>3, <1>5, <2>1, <2>2 DEF At
\* The others have an edit in their hands.
<1>17. CASE \/ PrepareWrite(c) \/ PrepareFails(c) \/ EditWrite(c) \/ EditFails(c) \/ Restart(c)
            \/ RestartFails(c) \/ Polled(c) \/ PollFails(c) \/ Restore(c) \/ RestoreFails(c)
            \/ RestartAgain(c) \/ RestartAgainFails(c)
  BY <1>5, <1>17 DEF PrepareWrite, PrepareFails, EditWrite, EditFails, Restart, RestartFails, Polled,
                     PollFails, Restore, RestoreFails, RestartAgain, RestartAgainFails, At, Edited
<1> QED BY <1>10, <1>11, <1>12, <1>13, <1>14, <1>15, <1>16, <1>17 DEF Work

LEMMA KeptStep ==
    ASSUME TypeInv, LockInv, Edited, KeptInv, [Next]_vars
    PROVE  KeptInv'
<1>1. ASSUME NEW c \in Client, Asks(c)
      PROVE  KeptInv'
  <2>0. PICK p \in {"save", "probe", "inspect"} : \E m, r : Ask(c, m, p, r)
    BY <1>1 DEF Asks, AskReset, AskLocation, AskMode, AskPreflight, AskExecute, AskEnable
  <2>1. PICK m, r : Ask(c, m, p, r)
    BY <2>0
  <2> DEFINE y == [Idle EXCEPT !.pc = p, !.cmd = m, !.row = r]
  <2>2. y.pc = p /\ y.was = None
    BY DEF Idle
  <2>3. sess' = [sess EXCEPT ![c] = y]
    BY <2>1 DEF Ask
  <2> HIDE DEF y
  <2>4. /\ sess'[c].pc = p /\ sess'[c].was = None /\ sess[c].pc = "idle"
        /\ \A d \in Client : d # c => sess'[d] = sess[d]
    BY <2>1, <2>2, <2>3 DEF TypeInv, Ask, At
  <2>5. UNCHANGED <<db, file, backups, deploy, original, uncovered>>
    BY <2>1 DEF Ask, store, disk, history
  <2>6. Saved => Saved'
    BY <2>4, <2>5 DEF Saved, At
  <2> QED BY <2>4, <2>5, <2>6 DEF KeptInv, At
<1>2. CASE DeployStep
  <2>1. UNCHANGED <<db, sess, backups, original>> /\ (uncovered => uncovered')
    <3>1. UNCHANGED <<db, sess, backups, original>>
      BY <1>2 DEF DeployStep, DeployBegin, DeployWrite, DeployLoad, DeployLoadFails, store, disk, history
    <3>2. CASE DeployBegin
      BY <3>1, <3>2 DEF DeployBegin
    <3>3. CASE DeployWrite \/ DeployLoad \/ DeployLoadFails
      <4>1. uncovered' = uncovered
        BY <3>3 DEF DeployWrite, DeployLoad, DeployLoadFails, history
      <4> QED BY <3>1, <4>1
    <3> QED BY <1>2, <3>2, <3>3 DEF DeployStep
  <2>2. Saved => Saved'
    BY <2>1 DEF Saved, At
  <2> SUFFICES ASSUME original # Absent, ~uncovered', ~Saved' PROVE FALSE
    BY <2>1 DEF KeptInv
  <2>3. /\ deploy.pc = "idle"
        /\ file \notin Own => \E c \in Client : sess[c].pc = "load"
    BY <2>1, <2>2 DEF KeptInv, At
  <2>4. DeployBegin
    BY <1>2, <2>3 DEF DeployStep, DeployWrite, DeployLoad, DeployLoadFails
  <2>5. PICK c \in Client : sess[c].pc = "load"
    BY <2>3, <2>4 DEF DeployBegin, Own
  <2> QED BY <2>4, <2>5 DEF DeployBegin, LockInv
<1>3. CASE CaddyStops \/ CaddyStarts \/ UNCHANGED vars
  <2>1. UNCHANGED <<db, sess, deploy, file, backups, original, uncovered>>
    BY <1>3 DEF CaddyStops, CaddyStarts, store, disk, history, vars
  <2> QED BY <2>1 DEF KeptInv, Saved, At
<1> QED BY <1>1, <1>2, <1>3, KeptWork DEF Next

\* Every edit comes after a backup, and a takeover has the snapshot in the
\* transaction that its load leads to.  The exceptions are the two of the
\* property: two that had the file in their hands at once, and a takeover of an
\* existing file whose load and whose restore both failed.
THEOREM OperatorsFileIsKept == Spec => []OwnKept
<1>1. Init => KeptInv
  <2> SUFFICES ASSUME Init PROVE KeptInv
    OBVIOUS
  <2>1. /\ \A c \in Client : sess[c] = Idle
        /\ file = original /\ deploy.pc = "idle" /\ file \in Own \cup {Absent}
    BY DEF Init
  <2> QED BY <2>1, Values DEF KeptInv, At
<1>2. TypeInv /\ LockInv /\ Edited /\ KeptInv /\ [Next]_vars => KeptInv'
  BY KeptStep
<1>3. KeptInv => OwnKept
  BY DEF KeptInv, Saved, OwnKept, Own, At
<1> QED BY <1>1, <1>2, <1>3, Invariants, PTL DEF Spec
-----------------------------------------------------------------------------
(***************************************************************************)
(* A failure restores the file.                                            *)
(***************************************************************************)
\* Only a repair looks at the file again after it has edited it.
Unedited ==
    \A c \in Client :
      /\ sess[c].pc \in {"idle", "lock", "inspect", "replace"} => sess[c].was = None
      /\ sess[c].pc \in {"inspect", "replace", "restart", "poll"} => sess[c].cmd = "enable"
      /\ sess[c].pc = "probe" /\ sess[c].was # None => sess[c].cmd # "execute"

LEMMA UneditedKept ==
    ASSUME Unedited, NEW c \in Client, NEW p, NEW m, NEW r, NEW w, NEW q, NEW i,
           Now(c, p, m, r, w, q, i),
           p \in {"idle", "lock", "inspect", "replace"} => w = None,
           p \in {"inspect", "replace", "restart", "poll"} => m = "enable",
           p = "probe" /\ w # None => m # "execute"
    PROVE  Unedited'
<1>1. ASSUME NEW d \in Client
      PROVE  /\ sess'[d].pc \in {"idle", "lock", "inspect", "replace"} => sess'[d].was = None
             /\ sess'[d].pc \in {"inspect", "replace", "restart", "poll"} => sess'[d].cmd = "enable"
             /\ sess'[d].pc = "probe" /\ sess'[d].was # None => sess'[d].cmd # "execute"
  <2>1. CASE d = c
    BY <2>1 DEF Now
  <2>2. CASE d # c
    BY <2>2 DEF Now, Unedited
  <2> QED BY <2>1, <2>2
<1> QED BY <1>1 DEF Unedited

LEMMA UneditedWork ==
    ASSUME TypeInv, Unedited, NEW c \in Client, Work(c)
    PROVE  Unedited'
<1>1. ASSUME Done(c)
      PROVE  Unedited'
  <2>1. Now(c, "idle", None, FreshRow, None, Absent, FALSE)
    BY <1>1, DoneNow
  <2> HIDE DEF FreshRow, Absent
  <2> QED BY <2>1, UneditedKept
<1>2. ASSUME NEW p \in Places \ {"idle", "lock", "inspect", "replace"}, Goto(c, p),
             p \in {"restart", "poll"} => sess[c].cmd = "enable",
             p = "probe" => sess[c].cmd # "execute" \/ sess[c].was = None
      PROVE  Unedited'
  <2>1. Now(c, p, sess[c].cmd, sess[c].row, sess[c].was, sess[c].prev, sess[c].imports)
    BY <1>2, GotoNow
  <2> QED BY <1>2, <2>1, UneditedKept
<1>3. CASE Save(c) \/ LockAndEnd(c) \/ Commit(c) \/ Fail(c) \/ InspectRefused(c)
  BY <1>1, <1>3 DEF Save, LockAndEnd, Commit, Fail, InspectRefused
<1>4. CASE SaveBusy(c)
  <2>1. CASE At(c, "save") /\ sess[c].was # None
    <3>1. Now(c, "restore", "broken", sess[c].row, sess[c].was, sess[c].prev, sess[c].imports)
      BY <1>4, <2>1, StepsNow
    <3> QED BY <3>1, UneditedKept
  <2> QED BY <1>1, <1>4, <2>1 DEF SaveBusy
<1>5. CASE Probe(c)
  <2>1. PICK p \in {"lock", "save"}, r \in Row :
           /\ Now(c, p, sess[c].cmd, r, sess[c].was, sess[c].prev, sess[c].imports)
           /\ p = "lock" => sess[c].cmd = "execute"
    BY <1>5, ProbeNow
  <2>2. p = "lock" => sess[c].was = None
    BY <1>5, <2>1 DEF Probe, At, Unedited
  <2> HIDE DEF Row
  <2> QED BY <2>1, <2>2, UneditedKept
<1>6. CASE Lock(c) \/ TakeGuard(c) \/ AlreadyManaged(c) \/ Load(c) \/ PrepareWrite(c) \/ EditFails(c)
           \/ RestartFails(c) \/ PollFails(c) \/ Restore(c) \/ GuardTimeout(c) \/ TakeoverRefused(c)
           \/ LoadFails(c) \/ PrepareRefused(c)
  <2>1. \E p \in {"prepare", "guard", "takeover", "commit", "fail", "restore", "again"} : Goto(c, p)
    BY <1>6 DEF Lock, TakeGuard, AlreadyManaged, Load, PrepareWrite, EditFails, RestartFails, PollFails,
                Restore, AfterRestore, GuardTimeout, TakeoverRefused, LoadFails, PrepareRefused, Undo
  <2> QED BY <1>2, <2>1 DEF Places
<1>7. CASE Restart(c) \/ Polled(c) \/ InspectReached(c)
  <2>1. sess[c].cmd = "enable" /\ \E p \in {"poll", "probe"} : Goto(c, p)
    BY <1>7 DEF Restart, Polled, InspectReached, At, Unedited
  <2> QED BY <1>2, <2>1 DEF Places
<1>8. CASE ProbeRefused(c)
  BY <1>1, <1>2, <1>8 DEF ProbeRefused, Places
<1>9. CASE PrepareBackup(c) \/ PrepareFails(c) \/ TakeOver(c)
  <2>1. \E p \in {"prepare", "fail", "load"} : \E m, r, w, q, i : Now(c, p, m, r, w, q, i)
    BY <1>9, StepsNow
  <2> QED BY <2>1, UneditedKept
<1>10. CASE EditBackup(c)
  <2>1. Now(c, "replace", sess[c].cmd, sess[c].row, sess[c].was, file, sess[c].imports)
    BY <1>10, StepsNow
  <2>2. sess[c].was = None /\ sess[c].cmd = "enable"
    BY <1>10 DEF EditBackup, At, Unedited
  <2> QED BY <2>1, <2>2, UneditedKept
<1>11. CASE EditWrite(c)
  <2>1. Now(c, "restart", sess[c].cmd, sess[c].row, sess[c].prev, sess[c].prev, sess[c].imports)
    BY <1>11, StepsNow
  <2>2. sess[c].cmd = "enable"
    BY <1>11 DEF EditWrite, At, Unedited
  <2> QED BY <2>1, <2>2, UneditedKept
<1>12. CASE RestoreFails(c) \/ (RestartAgainFails(c) /\ sess[c].cmd # "broken")
  <2>1. \E m, r, w, q, i : Now(c, "fail", m, r, w, q, i)
    BY <1>12, StepsNow
  <2> QED BY <2>1, UneditedKept
<1>13. CASE RestartAgain(c) \/ (RestartAgainFails(c) /\ sess[c].cmd = "broken")
  BY <1>1, <1>2, <1>13 DEF RestartAgain, RestartAgainFails, Places
<1> QED BY <1>3, <1>4, <1>5, <1>6, <1>7, <1>8, <1>9, <1>10, <1>11, <1>12, <1>13 DEF Work

LEMMA UneditedStep ==
    ASSUME TypeInv, Unedited, [Next]_vars
    PROVE  Unedited'
<1>1. ASSUME NEW c \in Client, Asks(c)
      PROVE  Unedited'
  <2>0. PICK p \in {"save", "probe", "inspect"} : \E m, r : Ask(c, m, p, r) /\ (p = "inspect" => m = "enable")
    BY <1>1 DEF Asks, AskReset, AskLocation, AskMode, AskPreflight, AskExecute, AskEnable
  <2>1. PICK m, r : Ask(c, m, p, r) /\ (p = "inspect" => m = "enable")
    BY <2>0
  <2> DEFINE y == [Idle EXCEPT !.pc = p, !.cmd = m, !.row = r]
  <2>2. y.pc = p /\ y.was = None /\ y.cmd = m
    BY DEF Idle
  <2>3. sess' = [sess EXCEPT ![c] = y]
    BY <2>1 DEF Ask
  <2> HIDE DEF y
  <2>4. /\ sess'[c].pc = p /\ sess'[c].was = None /\ sess'[c].cmd = m
        /\ \A d \in Client : d # c => sess'[d] = sess[d]
    BY <2>2, <2>3 DEF TypeInv
  <2> QED BY <2>1, <2>4 DEF Unedited
<1>2. CASE DeployStep \/ CaddyStops \/ CaddyStarts \/ UNCHANGED vars
  <2>1. sess' = sess
    BY <1>2 DEF DeployStep, DeployBegin, DeployWrite, DeployLoad, DeployLoadFails,
         CaddyStops, CaddyStarts, vars
  <2> QED BY <2>1 DEF Unedited
<1> QED BY <1>1, <1>2, UneditedWork DEF Next

\* A request with an edit or a takeover in hand, by where it is.
EngagedAt(p, w) ==
    w # None \/ p \in {"takeover", "load", "replace", "restart", "poll", "restore", "again"}
Engaged(c) == EngagedAt(sess[c].pc, sess[c].was)

Alone(c) == \A d \in Client \ {c} : ~Engaged(d)

\* Where a request is engaged and the file is nevertheless the one of the beginning.
IntactAt(p, w) ==
    \/ p = "takeover" /\ w = None
    \/ p \in {"replace", "again"}
    \/ p \in {"prepare", "fail"} /\ w # None

\* A change of the file is about to be announced.
Doomed ==
    \/ \E c \in Client : At(c, "commit")
    \/ \E c \in Client : At(c, "fail") /\ sess[c].row.lost

SoloBody ==
    /\ deploy.pc = "idle"
    /\ \A c, d \in Client : Engaged(c) /\ Engaged(d) => c = d
    /\ (\A c \in Client : ~Engaged(c)) => file = original
    /\ \A c \in Client :
         /\ sess[c].was # None => sess[c].was = original
         /\ IntactAt(sess[c].pc, sess[c].was) => file = original
         /\ sess[c].pc = "replace" \/ (sess[c].pc = "load" /\ sess[c].was = None)
               => sess[c].prev = original

\* One request at a time is engaged, and it knows what it has to put back.
SoloInv == ~accounted /\ ~uncovered /\ ~Doomed => SoloBody

\* What a request may do to the file and its own session.
Careful(c, p, w, q) ==
    /\ EngagedAt(p, w) => Engaged(c) \/ Alone(c)
    /\ file' = file \/ Engaged(c)
    /\ ~EngagedAt(p, w) => (Engaged(c) => file' = original) /\ (Engaged(c) \/ file' = file)
    /\ w # None => w = original
    /\ IntactAt(p, w) => file' = original
    /\ p = "replace" \/ (p = "load" /\ w = None) => q = original

LEMMA SoloKept ==
    ASSUME SoloBody, deploy' = deploy, original' = original,
           NEW c \in Client, NEW p, NEW m, NEW r, NEW w, NEW q, NEW i, Now(c, p, m, r, w, q, i),
           Careful(c, p, w, q)
    PROVE  SoloBody'
<1>1. /\ Engaged(c)' = EngagedAt(p, w) /\ sess'[c].pc = p /\ sess'[c].was = w /\ sess'[c].prev = q
      /\ \A d \in Client : d # c => sess'[d] = sess[d] /\ Engaged(d)' = Engaged(d)
  BY DEF Now, Engaged
<1>2. \A d, e \in Client : Engaged(d)' /\ Engaged(e)' => d = e
  BY <1>1 DEF SoloBody, Alone, Careful
<1>3. (\A d \in Client : ~Engaged(d)') => file' = original
  <2> SUFFICES ASSUME \A d \in Client : ~Engaged(d)' PROVE file' = original
    OBVIOUS
  <2>1. \A d \in Client : d # c => ~Engaged(d)
    BY <1>1
  <2>2. ~EngagedAt(p, w)
    BY <1>1
  <2>3. CASE Engaged(c)
    BY <2>2, <2>3 DEF Careful
  <2>4. CASE ~Engaged(c)
    BY <2>1, <2>2, <2>4 DEF SoloBody, Careful
  <2> QED BY <2>3, <2>4
<1>4. ASSUME NEW d \in Client
      PROVE  /\ sess'[d].was # None => sess'[d].was = original'
             /\ IntactAt(sess'[d].pc, sess'[d].was) => file' = original'
             /\ sess'[d].pc = "replace" \/ (sess'[d].pc = "load" /\ sess'[d].was = None)
                   => sess'[d].prev = original'
  <2>1. CASE d = c
    BY <1>1, <2>1 DEF Careful
  <2>2. CASE d # c
    <3>1. sess'[d] = sess[d]
      BY <1>1, <2>2
    <3>2. IntactAt(sess[d].pc, sess[d].was) => Engaged(d)
      BY DEF IntactAt, Engaged, EngagedAt
    <3>3. IntactAt(sess[d].pc, sess[d].was) => file' = file
      BY <2>2, <3>2 DEF SoloBody, Careful
    <3> QED BY <3>1, <3>3 DEF SoloBody
  <2> QED BY <2>1, <2>2
<1>5. deploy'.pc = "idle"
  BY DEF SoloBody
<1> QED BY <1>2, <1>3, <1>4, <1>5 DEF SoloBody, IntactAt

LEMMA DoomedStays ==
    ASSUME TypeInv, NEW c \in Client, Work(c), Doomed
    PROVE  Doomed' \/ accounted' = TRUE
<1>0. CASE \E d \in Client : At(d, "commit")
  <2>1. PICK d \in Client : sess[d].pc = "commit"
    BY <1>0 DEF At
  <2>2. CASE d # c
    BY <2>1, <2>2, OthersStay DEF Doomed, At
  <2>3. CASE d = c
    <3>1. Commit(c)
      BY <2>1, <2>3 DEF At, Work, Save, SaveBusy, Probe, ProbeRefused, Lock, LockAndEnd, PrepareBackup,
             PrepareRefused, PrepareWrite, PrepareFails, TakeGuard, GuardTimeout, AlreadyManaged, TakeoverRefused,
             TakeOver, Load, LoadFails, Fail, InspectRefused, InspectReached, EditBackup, EditWrite,
             EditFails, Restart, RestartFails, Polled, PollFails, Restore, RestoreFails, RestartAgain,
             RestartAgainFails
    <3> QED BY <3>1 DEF Commit
  <2> QED BY <2>2, <2>3
<1> SUFFICES ASSUME NEW d \in Client, sess[d].pc = "fail", sess[d].row.lost
             PROVE  Doomed' \/ accounted' = TRUE
  BY <1>0 DEF Doomed, At
<1>2. CASE d # c
  BY <1>2, OthersStay DEF Doomed, At
<1>3. CASE c = d
  <2>1. Fail(c) \/ SaveBusy(c)
    BY <1>3 DEF At, Work, Save, Probe, ProbeRefused, Lock, LockAndEnd, PrepareBackup, PrepareRefused,
           PrepareWrite, PrepareFails, TakeGuard, GuardTimeout, AlreadyManaged, TakeoverRefused,
           TakeOver, Load, LoadFails, Commit, InspectRefused, InspectReached, EditBackup, EditWrite,
           EditFails, Restart, RestartFails, Polled, PollFails, Restore, RestoreFails, RestartAgain,
           RestartAgainFails
  <2>2. accounted' = (accounted \/ sess[c].row.lost)
    BY <2>1 DEF Fail, SaveBusy
  <2> QED BY <1>3, <2>2
<1> QED BY <1>2, <1>3

LEMMA SoloWork ==
    ASSUME TypeInv, Edited, Unedited, SoloInv, NEW c \in Client, Work(c)
    PROVE  SoloInv'
<1> SUFFICES ASSUME ~accounted', ~uncovered', ~Doomed' PROVE SoloBody'
  BY DEF SoloInv
<1>1. deploy' = deploy /\ original' = original
  BY WorkRest
<1>2. /\ ~uncovered
      /\ uncovered' = Overlaps(c) => Alone(c)
  <2>1. \/ uncovered' = uncovered \/ uncovered' = Overlaps(c)
        \/ uncovered' = (uncovered \/ sess[c].was = None)
    BY DEF Work, Save, SaveBusy, Probe, ProbeRefused, Lock, LockAndEnd, PrepareBackup,
           PrepareRefused, PrepareWrite,
           PrepareFails, TakeGuard, GuardTimeout, AlreadyManaged, TakeoverRefused, TakeOver, Load,
           LoadFails, Commit, Fail, InspectRefused, InspectReached, EditBackup, EditWrite, EditFails,
           Restart, RestartFails, Polled, PollFails, Restore, RestoreFails, RestartAgain,
           RestartAgainFails, history
  <2>2. \A d \in Client : Engaged(d) => Holding(d)
    BY DEF Engaged, EngagedAt, Holding
  <2>3. CASE uncovered' = uncovered \/ uncovered' = (uncovered \/ sess[c].was = None)
    <3>1. ~uncovered
      BY <2>3
    <3>2. uncovered' = Overlaps(c) => ~Overlaps(c)
      OBVIOUS
    <3> QED BY <2>2, <3>1, <3>2 DEF Overlaps, Alone
  <2>4. CASE uncovered' = Overlaps(c)
    <3>1. ~Overlaps(c)
      BY <2>4
    <3> QED BY <2>2, <3>1 DEF Overlaps, Alone
  <2> QED BY <2>1, <2>3, <2>4
<1>3. ~accounted
  <2>1. \/ accounted' = accounted \/ accounted' = TRUE
        \/ accounted' = (accounted \/ sess[c].was # None)
        \/ accounted' = (accounted \/ sess[c].row.lost)
    BY DEF Work, Save, SaveBusy, Probe, ProbeRefused, Lock, LockAndEnd, PrepareBackup,
           PrepareRefused, PrepareWrite,
           PrepareFails, TakeGuard, GuardTimeout, AlreadyManaged, TakeoverRefused, TakeOver, Load,
           LoadFails, Commit, Fail, InspectRefused, InspectReached, EditBackup, EditWrite, EditFails,
           Restart, RestartFails, Polled, PollFails, Restore, RestoreFails, RestartAgain,
           RestartAgainFails, history
  <2> QED BY <2>1
<1>4. ~Doomed
  BY DoomedStays
<1>5. SoloBody
  BY <1>2, <1>3, <1>4 DEF SoloInv
<1>6. sess[c].was # None => sess[c].was = original
  BY <1>5 DEF SoloBody
<1>7. sess'[c].pc # "commit" /\ ~(sess'[c].pc = "fail" /\ sess'[c].row.lost)
  <2>1. sess'[c].pc = "commit" => Doomed'
    BY DEF Doomed, At
  <2>2. ASSUME sess'[c].pc = "fail", sess'[c].row.lost
        PROVE  Doomed'
    BY <2>2 DEF Doomed, At
  <2> QED BY <2>1, <2>2
\* A request that is done has put the file back, or never had it in hand.
<1>8. ASSUME Done(c), file' = file, Engaged(c) => file = original
      PROVE  SoloBody'
  <2>1. Now(c, "idle", None, FreshRow, None, Absent, FALSE)
    BY <1>8, DoneNow
  <2>2. Careful(c, "idle", None, Absent)
    BY <1>8 DEF Careful, EngagedAt, IntactAt
  <2> HIDE DEF FreshRow, Absent
  <2> QED BY <1>1, <1>5, <2>1, <2>2, SoloKept
<1>9. ASSUME NEW p \in Places, Goto(c, p), Careful(c, p, sess[c].was, sess[c].prev)
      PROVE  SoloBody'
  <2>1. Now(c, p, sess[c].cmd, sess[c].row, sess[c].was, sess[c].prev, sess[c].imports)
    BY <1>9, GotoNow
  <2> HIDE DEF Places
  <2> QED BY <1>1, <1>5, <1>9, <2>1, SoloKept
<1>10. /\ IntactAt(sess[c].pc, sess[c].was) => file = original
       /\ sess[c].pc = "replace" \/ (sess[c].pc = "load" /\ sess[c].was = None) => sess[c].prev = original
       /\ Engaged(c) <=> EngagedAt(sess[c].pc, sess[c].was)
       /\ Alone(c) /\ ~Engaged(c) => file = original
  BY <1>5 DEF SoloBody, Engaged, Alone
<1>11. CASE Save(c) \/ LockAndEnd(c) \/ Commit(c) \/ Fail(c) \/ InspectRefused(c)
  <2>1. Done(c) /\ file' = file
    BY <1>11 DEF Save, LockAndEnd, Commit, Fail, InspectRefused, disk
  <2>2. ~Commit(c) /\ (Save(c) => sess[c].was = None)
    <3>1. Save(c) => accounted' = (accounted \/ sess[c].was # None)
      BY DEF Save
    <3>2. ~Commit(c)
      BY DEF Commit
    <3> QED BY <3>1, <3>2
  <2>3. CASE Fail(c)
    BY <1>8, <1>10, <2>1, <2>3 DEF Fail, At, EngagedAt, IntactAt
  <2>4. CASE Save(c) \/ LockAndEnd(c) \/ InspectRefused(c)
    <3>1. sess[c].was = None /\ sess[c].pc \in {"save", "lock", "inspect"}
      BY <2>2, <2>4 DEF Save, LockAndEnd, InspectRefused, At, Unedited
    <3> QED BY <1>8, <1>10, <2>1, <3>1 DEF EngagedAt
  <2> QED BY <1>11, <2>2, <2>3, <2>4
<1>12. CASE SaveBusy(c)
  <2>1. file' = file /\ sess[c].pc \in {"save", "lock", "fail"}
    BY <1>12 DEF SaveBusy, disk
  <2>2. CASE At(c, "save") /\ sess[c].was # None
    <3>1. Now(c, "restore", "broken", sess[c].row, sess[c].was, sess[c].prev, sess[c].imports)
      BY <1>12, <2>2, StepsNow
    <3>2. Careful(c, "restore", sess[c].was, sess[c].prev)
      BY <1>6, <1>10, <2>1, <2>2 DEF Careful, EngagedAt, IntactAt
    <3> QED BY <1>1, <1>5, <3>1, <3>2, SoloKept
  <2>3. CASE ~(At(c, "save") /\ sess[c].was # None)
    <3>1. Done(c)
      BY <1>12, <2>3 DEF SaveBusy
    <3>2. Engaged(c) => file = original
      BY <1>10, <2>1, <2>3 DEF Unedited, At, EngagedAt, IntactAt
    <3> QED BY <1>8, <2>1, <3>1, <3>2
  <2> QED BY <2>2, <2>3
<1>13. CASE Lock(c) \/ InspectReached(c) \/ PrepareRefused(c)
  <2>1. /\ file' = file /\ sess[c].was = None /\ sess[c].pc \in {"lock", "inspect", "prepare"}
        /\ \E p \in {"prepare", "guard", "probe", "fail"} : Goto(c, p)
    BY <1>13 DEF Lock, InspectReached, PrepareRefused, At, Unedited, disk
  <2>2. PICK p \in {"prepare", "guard", "probe", "fail"} : Goto(c, p)
    BY <2>1
  <2>3. Careful(c, p, sess[c].was, sess[c].prev)
    BY <1>10, <2>1 DEF Careful, EngagedAt, IntactAt
  <2> QED BY <1>9, <2>2, <2>3 DEF Places
<1>14. CASE TakeGuard(c)
  <2>1. file' = file /\ sess[c].pc = "guard" /\ Goto(c, "takeover") /\ Alone(c)
    BY <1>2, <1>14 DEF TakeGuard, At, disk
  <2>2. Careful(c, "takeover", sess[c].was, sess[c].prev)
    BY <1>6, <1>10, <2>1 DEF Careful, EngagedAt, IntactAt
  <2> QED BY <1>9, <2>1, <2>2 DEF Places
<1>15. CASE GuardTimeout(c) \/ TakeoverRefused(c) \/ LoadFails(c)
  <2>1. /\ sess[c].pc \in {"guard", "takeover", "load"}
        /\ Goto(c, IF sess[c].was # None THEN "restore" ELSE "fail")
        /\ IF sess[c].pc = "load" THEN sess[c].was = None => file' = sess[c].prev ELSE file' = file
    BY <1>15 DEF GuardTimeout, TakeoverRefused, LoadFails, Undo, At, disk
  <2>2. CASE sess[c].was # None
    <3>1. Careful(c, "restore", sess[c].was, sess[c].prev)
      BY <1>6, <1>10, <2>1, <2>2 DEF Careful, EngagedAt, IntactAt
    <3> QED BY <1>9, <2>1, <2>2, <3>1 DEF Places
  <2>3. CASE sess[c].was = None
    <3>1. ~EngagedAt("fail", None) /\ ~IntactAt("fail", None)
      BY DEF EngagedAt, IntactAt
    <3>2. ASSUME sess[c].pc = "guard"
          PROVE  Careful(c, "fail", sess[c].was, sess[c].prev)
      <4>1. ~Engaged(c) /\ file' = file
        BY <1>10, <2>1, <2>3, <3>2 DEF EngagedAt
      <4>2. Careful(c, "fail", None, sess[c].prev)
        BY <3>1, <4>1 DEF Careful
      <4> QED BY <2>3, <4>2
    <3>3. ASSUME sess[c].pc \in {"takeover", "load"}
          PROVE  Careful(c, "fail", sess[c].was, sess[c].prev)
      <4>1. Engaged(c) /\ file' = original
        BY <1>10, <2>1, <2>3, <3>3 DEF EngagedAt, IntactAt
      <4>2. Careful(c, "fail", None, sess[c].prev)
        BY <3>1, <4>1 DEF Careful
      <4> QED BY <2>3, <4>2
    <3>4. Careful(c, "fail", sess[c].was, sess[c].prev)
      BY <2>1, <3>2, <3>3
    <3> QED BY <1>9, <2>1, <2>3, <3>4 DEF Places
  <2> QED BY <2>2, <2>3
<1>16. CASE AlreadyManaged(c) \/ Load(c)
  <2>1. Goto(c, "commit")
    BY <1>16 DEF AlreadyManaged, Load
  <2>2. sess'[c].pc = "commit"
    BY <2>1, GotoNow DEF Now, Places
  <2> QED BY <1>7, <2>2
<1>17. CASE PrepareWrite(c)
  <2>1. sess[c].pc = "prepare" /\ sess[c].was # None /\ Goto(c, "guard")
    BY <1>17 DEF PrepareWrite, At
  <2>2. Careful(c, "guard", sess[c].was, sess[c].prev)
    BY <1>6, <1>10, <2>1 DEF Careful, EngagedAt, IntactAt
  <2> QED BY <1>9, <2>1, <2>2 DEF Places
<1>18. CASE EditFails(c)
  <2>1. file' = file /\ sess[c].pc = "replace" /\ sess[c].was = None /\ Goto(c, "fail")
    BY <1>18 DEF EditFails, At, disk, Unedited
  <2>2. Careful(c, "fail", sess[c].was, sess[c].prev)
    <3>1. Engaged(c) /\ file' = original
      BY <1>10, <2>1 DEF EngagedAt, IntactAt
    <3>2. ~IntactAt("fail", None)
      BY DEF IntactAt
    <3> QED BY <2>1, <3>1, <3>2 DEF Careful
  <2> QED BY <1>9, <2>1, <2>2 DEF Places
<1>19. CASE Restart(c) \/ RestartFails(c) \/ Polled(c) \/ PollFails(c)
  <2>1. /\ file' = file /\ sess[c].was # None
        /\ \E p \in {"poll", "restore", "probe"} : Goto(c, p)
    BY <1>19 DEF Restart, RestartFails, Polled, PollFails, At, disk, Edited
  <2>2. PICK p \in {"poll", "restore", "probe"} : Goto(c, p)
    BY <2>1
  <2>3. Careful(c, p, sess[c].was, sess[c].prev)
    BY <1>6, <1>10, <2>1 DEF Careful, EngagedAt, IntactAt
  <2> QED BY <1>9, <2>2, <2>3 DEF Places
<1>20. CASE Restore(c)
  <2>1. /\ file' = original /\ sess[c].was # None
    BY <1>6, <1>20 DEF Restore, At, Edited
  <2>2. PICK p \in {"again", "fail"} : Goto(c, p)
    BY <1>20 DEF Restore, AfterRestore
  <2>3. Careful(c, p, sess[c].was, sess[c].prev)
    BY <1>6, <1>10, <2>1 DEF Careful, EngagedAt
  <2> QED BY <1>9, <2>2, <2>3 DEF Places
<1>21. CASE ProbeRefused(c)
  <2>1. file' = file /\ sess[c].pc = "probe"
    BY <1>21 DEF ProbeRefused, At, disk
  <2>2. CASE sess[c].was # None
    <3>1. Careful(c, "restore", sess[c].was, sess[c].prev)
      BY <1>6, <1>10, <2>1, <2>2 DEF Careful, EngagedAt, IntactAt
    <3> QED BY <1>9, <1>21, <2>2, <3>1 DEF ProbeRefused, Places
  <2>3. CASE sess[c].was = None
    <3>1. Done(c) /\ ~Engaged(c)
      BY <1>10, <1>21, <2>1, <2>3 DEF ProbeRefused, EngagedAt
    <3> QED BY <1>8, <2>1, <3>1
  <2> QED BY <2>2, <2>3
<1>22. CASE RestartAgain(c) \/ (RestartAgainFails(c) /\ sess[c].cmd = "broken")
  <2>1. file' = file /\ file = original /\ sess[c].pc = "again" /\ sess[c].was # None
    BY <1>10, <1>22 DEF RestartAgain, RestartAgainFails, At, Edited, IntactAt, disk
  <2>2. CASE Goto(c, "fail")
    <3>1. Careful(c, "fail", sess[c].was, sess[c].prev)
      BY <1>6, <1>10, <2>1 DEF Careful, EngagedAt
    <3> QED BY <1>9, <2>2, <3>1 DEF Places
  <2>3. CASE Done(c)
    BY <1>8, <2>1, <2>3
  <2> QED BY <1>22, <2>2, <2>3 DEF RestartAgain, RestartAgainFails
<1>23. CASE Probe(c)
  <2>1. file' = file /\ sess[c].pc = "probe"
    BY <1>23 DEF Probe, At, disk
  <2>2. PICK p \in {"lock", "save"}, r \in Row :
           Now(c, p, sess[c].cmd, r, sess[c].was, sess[c].prev, sess[c].imports)
    BY <1>23, ProbeNow
  <2>3. Careful(c, p, sess[c].was, sess[c].prev)
    BY <1>6, <1>10, <2>1 DEF Careful, EngagedAt, IntactAt
  <2> HIDE DEF Row
  <2> QED BY <1>1, <1>5, <2>2, <2>3, SoloKept
<1>24. CASE PrepareBackup(c)
  <2>1. file' = file /\ sess[c].pc = "prepare" /\ sess[c].was = None /\ Alone(c)
    BY <1>2, <1>24 DEF PrepareBackup, At
  <2>2. PICK r : Now(c, "prepare", sess[c].cmd, r, file, sess[c].prev, sess[c].imports)
    BY <1>24, StepsNow
  <2>3. Careful(c, "prepare", file, sess[c].prev)
    BY <1>10, <2>1 DEF Careful, EngagedAt, IntactAt
  <2> QED BY <1>1, <1>5, <2>2, <2>3, SoloKept
<1>25. CASE PrepareFails(c)
  <2>1. file' = file /\ sess[c].pc = "prepare" /\ sess[c].was # None
    BY <1>25 DEF PrepareFails, At, disk
  <2>2. PICK r : Now(c, "fail", sess[c].cmd, r, None, sess[c].prev, sess[c].imports)
    BY <1>25, StepsNow
  <2>3. Careful(c, "fail", None, sess[c].prev)
    BY <1>10, <2>1 DEF Careful, EngagedAt, IntactAt
  <2> QED BY <1>1, <1>5, <2>2, <2>3, SoloKept
<1>26. CASE TakeOver(c)
  <2>1. sess[c].pc = "takeover"
    BY <1>26 DEF TakeOver, At
  <2>2. Now(c, "load", sess[c].cmd, sess[c].row, sess[c].was, file, file.sites)
    BY <1>26, StepsNow
  <2>3. Careful(c, "load", sess[c].was, file)
    <3>1. Engaged(c) /\ EngagedAt("load", sess[c].was) /\ ~IntactAt("load", sess[c].was)
      BY <1>10, <2>1 DEF EngagedAt, IntactAt
    <3>2. sess[c].was = None => file = original
      BY <1>10, <2>1 DEF IntactAt
    <3> QED BY <1>6, <3>1, <3>2 DEF Careful
  <2> QED BY <1>1, <1>5, <2>2, <2>3, SoloKept
<1>27. CASE EditBackup(c)
  <2>1. file' = file /\ sess[c].pc = "inspect" /\ sess[c].was = None /\ Alone(c)
    BY <1>2, <1>27 DEF EditBackup, At, Unedited
  <2>2. Now(c, "replace", sess[c].cmd, sess[c].row, sess[c].was, file, sess[c].imports)
    BY <1>27, StepsNow
  <2>3. Careful(c, "replace", sess[c].was, file)
    <3>1. ~Engaged(c) /\ file = original
      BY <1>10, <2>1 DEF EngagedAt
    <3> QED BY <2>1, <3>1 DEF Careful, EngagedAt, IntactAt
  <2> QED BY <1>1, <1>5, <2>2, <2>3, SoloKept
<1>28. CASE EditWrite(c)
  <2>1. sess[c].pc = "replace" /\ sess[c].prev = original /\ sess[c].prev # None
    <3>1. sess[c].prev # None
      <4> HIDE DEF Content
      <4> QED BY Fields
    <3>2. sess[c].pc = "replace"
      BY <1>28 DEF EditWrite, At
    <3> QED BY <1>10, <3>1, <3>2
  <2>2. Now(c, "restart", sess[c].cmd, sess[c].row, sess[c].prev, sess[c].prev, sess[c].imports)
    BY <1>28, StepsNow
  <2>3. Careful(c, "restart", sess[c].prev, sess[c].prev)
    BY <1>10, <2>1 DEF Careful, EngagedAt, IntactAt
  <2> QED BY <1>1, <1>5, <2>2, <2>3, SoloKept
\* A failed restore is announced by the row that will be saved.
<1>29. CASE RestoreFails(c) \/ (RestartAgainFails(c) /\ sess[c].cmd # "broken")
  <2>1. Now(c, "fail", sess[c].cmd, Loss(sess[c].row, sess[c].was), sess[c].was, sess[c].prev, sess[c].imports)
    BY <1>29, StepsNow
  <2>2. Loss(sess[c].row, sess[c].was).lost = TRUE
    <3> HIDE DEF Row, Content
    <3> QED BY Fields, LossRow
  <2>3. sess'[c].pc = "fail" /\ sess'[c].row = Loss(sess[c].row, sess[c].was)
    BY <2>1 DEF Now
  <2> QED BY <1>7, <2>2, <2>3
<1> QED BY <1>11, <1>12, <1>13, <1>14, <1>15, <1>16, <1>17, <1>18, <1>19, <1>20, <1>21, <1>22, <1>23,
           <1>24, <1>25, <1>26, <1>27, <1>28, <1>29 DEF Work

LEMMA SoloStep ==
    ASSUME TypeInv, Edited, Unedited, SoloInv, [Next]_vars
    PROVE  SoloInv'
<1>1. ASSUME NEW c \in Client, Asks(c)
      PROVE  SoloInv'
  <2>1. PICK m \in Commands, p \in {"save", "probe", "inspect"}, r \in Row : Ask(c, m, p, r)
    <3>1. db.row \in Row
      <4> HIDE DEF Row
      <4> QED BY DEF TypeInv
    <3>2. FreshRow \in Row /\ \A m \in Modes : [FreshRow EXCEPT !.status = "in_progress", !.mode = m] \in Row
      BY DEF FreshRow, Row
    <3> HIDE DEF Row
    <3> QED BY <1>1, <3>1, <3>2 DEF Asks, AskReset, AskLocation, AskMode, AskPreflight, AskExecute,
                                    AskEnable, Commands
  <2>2. Now(c, p, m, r, None, Absent, FALSE)
    <3>1. p \in Places
      BY DEF Places
    <3> HIDE DEF Places, Commands, Row, Absent
    <3> QED BY <2>1, <3>1, AskNow
  <2>3. deploy' = deploy /\ original' = original /\ file' = file /\ accounted' = accounted
        /\ uncovered' = uncovered /\ sess[c].pc = "idle"
    BY <2>1 DEF Ask, At, disk, history
  <2>4. ~Engaged(c)
    BY <2>3 DEF Engaged, EngagedAt, Unedited
  <2>5. Careful(c, p, None, Absent)
    BY <2>3, <2>4 DEF Careful, EngagedAt, IntactAt
  <2>6. Doomed => Doomed'
    <3>1. \A d \in Client : d # c => sess'[d] = sess[d]
      BY <2>2 DEF Now
    <3> QED BY <2>3, <3>1 DEF Doomed, At
  <2>7. SoloBody => SoloBody'
    <3> HIDE DEF Absent, Row, Commands
    <3> QED BY <2>2, <2>3, <2>5, SoloKept
  <2> QED BY <2>3, <2>6, <2>7 DEF SoloInv
<1>2. CASE DeployStep
  <2>1. UNCHANGED <<sess, original, accounted>>
    BY <1>2 DEF DeployStep, DeployBegin, DeployWrite, DeployLoad, DeployLoadFails, history
  <2>2. CASE DeployBegin
    <3> SUFFICES ASSUME ~accounted', ~uncovered', ~Doomed' PROVE FALSE
      BY DEF SoloInv
    <3>1. ~uncovered /\ \A c \in Client : ~Holding(c)
      <4>1. uncovered' = (uncovered \/ \E c \in Client : Holding(c))
        BY <2>2 DEF DeployBegin
      <4> QED BY <4>1
    <3>2. ~Doomed /\ ~accounted
      BY <2>1 DEF Doomed, At
    <3>3. SoloBody /\ \A c \in Client : ~Engaged(c)
      BY <3>1, <3>2 DEF SoloInv, Holding, Engaged, EngagedAt
    <3>4. file = original
      BY <3>3 DEF SoloBody
    <3>5. original \in Own \cup {Absent}
      BY DEF TypeInv
    <3> QED BY <2>2, <3>4, <3>5 DEF DeployBegin, Own, Absent
  <2>3. CASE DeployWrite \/ DeployLoad \/ DeployLoadFails
    <3>1. uncovered' = uncovered /\ deploy.pc # "idle"
      BY <2>3 DEF DeployWrite, DeployLoad, DeployLoadFails, history
    <3>2. Doomed' = Doomed
      BY <2>1 DEF Doomed, At
    <3> QED BY <2>1, <3>1, <3>2 DEF SoloInv, SoloBody
  <2> QED BY <1>2, <2>2, <2>3 DEF DeployStep
<1>3. CASE CaddyStops \/ CaddyStarts \/ UNCHANGED vars
  <2>1. UNCHANGED <<sess, deploy, file, original, uncovered, accounted>>
    BY <1>3 DEF CaddyStops, CaddyStarts, disk, history, vars
  <2> QED BY <2>1 DEF SoloInv, SoloBody, Doomed, At, Engaged
<1> QED BY <1>1, <1>2, <1>3, SoloWork DEF Next

\* With nothing announced, a wizard at rest has the file of the beginning, but for
\* the same two exceptions: every failure after an edit has put it back, the retry
\* on a broken session among them, and over a starter file the wizard's own
\* restore stands in for the one that a refused load only logs.
THEOREM FailuresRestore == Spec => []CoveredFailureRestores
<1>1. Init => Unedited /\ SoloInv
  <2> SUFFICES ASSUME Init PROVE Unedited /\ SoloInv
    OBVIOUS
  <2>1. /\ \A c \in Client : sess[c] = Idle
        /\ file = original /\ deploy.pc = "idle"
    BY DEF Init
  <2>2. \A c \in Client : sess[c].pc = "idle" /\ sess[c].was = None
    BY <2>1, Values
  <2>3. Unedited
    BY <2>2 DEF Unedited
  <2>4. SoloBody
    BY <2>1, <2>2 DEF SoloBody, Engaged, EngagedAt, IntactAt
  <2> QED BY <2>3, <2>4 DEF SoloInv
<1>2. TypeInv /\ Edited /\ Unedited /\ SoloInv /\ [Next]_vars => (Unedited /\ SoloInv)'
  BY UneditedStep, SoloStep
<1>3. Unedited /\ SoloInv => CoveredFailureRestores
  <2> SUFFICES ASSUME Unedited, SoloInv, Quiet, ~accounted, ~uncovered PROVE file = original
    BY DEF CoveredFailureRestores
  <2>1. \A c \in Client : sess[c].pc = "idle" /\ sess[c].was = None
    BY DEF Quiet, At, Unedited
  <2>2. ~Doomed /\ \A c \in Client : ~Engaged(c)
    BY <2>1 DEF Doomed, At, Engaged, EngagedAt
  <2> QED BY <2>2 DEF SoloInv, SoloBody
<1> QED BY <1>1, <1>2, <1>3, Invariants, PTL DEF Spec
=============================================================================
