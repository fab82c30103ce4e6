------------------------- MODULE AgentRegistryProofs -------------------------
(***************************************************************************)
(* Proofs about the agent registry, for any agents, tenants and callers.   *)
(***************************************************************************)
EXTENDS AgentRegistry, WellFoundedInduction, TLAPS

-----------------------------------------------------------------------------
(* The newest row of a set of indices.                                      *)

(* A set of natural numbers that is not empty has a least element.          *)
LEMMA LeastNumber ==
  ASSUME NEW T \in SUBSET Nat, T # {}
  PROVE  \E m \in T : \A k \in T : m <= k
<1>1. PICK m \in T : \A k \in T : ~ (<<k, m>> \in OpToRel(<, Nat))
  BY NatLessThanWellFounded, WFMin
<1>2. \A k \in T : ~ (k < m)
  BY <1>1 DEF OpToRel
<1> QED
  BY <1>2

(* A set of indices that is not empty has a greatest element, and Max is it.*)
LEMMA MaxIsGreatest ==
  ASSUME NEW n \in Nat, NEW S \in SUBSET (1..n), S # {}
  PROVE  Max(S) \in S /\ \A i \in S : i <= Max(S)
<1> DEFINE T == {n - i : i \in S}
<1>1. ASSUME NEW k \in T
      PROVE  k \in Nat
  <2>1. PICK i \in S : k = n - i
    OBVIOUS
  <2>2. i \in 1..n
    OBVIOUS
  <2> QED
    BY <2>1, <2>2
<1>2. PICK m \in T : \A k \in T : m <= k
  <2>1. T \in SUBSET Nat /\ T # {}
    BY <1>1
  <2> HIDE DEF T
  <2> QED
    BY <2>1, LeastNumber
<1>3. PICK x \in S : m = n - x
  OBVIOUS
<1>4. ASSUME NEW i \in S
      PROVE  x >= i
  <2>1. n - i \in T
    OBVIOUS
  <2>2. n - x <= n - i
    BY <1>2, <1>3, <2>1
  <2>3. x \in 1..n /\ i \in 1..n
    OBVIOUS
  <2> QED
    BY <2>2, <2>3
<1>5. Max(S) \in S /\ \A i \in S : Max(S) >= i
  BY <1>3, <1>4 DEF Max
<1>6. \A i \in S : i \in Int
  OBVIOUS
<1> QED
  BY <1>5, <1>6

(* The greatest element is the one that is greatest.                        *)
LEMMA MaxIs ==
  ASSUME NEW n \in Nat, NEW S \in SUBSET (1..n),
         NEW m \in S, \A i \in S : i <= m
  PROVE  Max(S) = m
<1>1. Max(S) \in S /\ \A i \in S : i <= Max(S)
  BY MaxIsGreatest
<1>2. Max(S) \in Int /\ m \in Int
  <2>1. \A i \in S : i \in Int
    OBVIOUS
  <2> QED
    BY <1>1, <2>1
<1>3. Max(S) <= m /\ m <= Max(S)
  BY <1>1
<1> QED
  BY <1>2, <1>3

(* The indices of the rows of an agent, and of those that are no tombstones.*)
Mine(n) == {i \in DOMAIN rows : rows[i].name = n}
Live(n) == {i \in DOMAIN rows : rows[i].name = n /\ ~ rows[i].dereg}

(* What getByName finds is a row of the agent that is no tombstone.         *)
LEMMA FoundRow ==
  ASSUME TypeOK, NEW n, GetByName(n) # Absent
  PROVE  /\ GetByName(n) \in Row
         /\ GetByName(n).name = n
<1>1. /\ rows \in Seq(Row)
      /\ DOMAIN rows = 1..Len(rows)
      /\ Len(rows) \in Nat
  BY DEF TypeOK
<1>2. Live(n) \in SUBSET (1..Len(rows)) /\ Live(n) # {}
  BY <1>1 DEF Live, GetByName, Newest
<1>3. Max(Live(n)) \in Live(n)
  BY <1>1, <1>2, MaxIsGreatest
<1>4. GetByName(n) = rows[Max(Live(n))]
  BY <1>2 DEF Live, GetByName, Newest
<1>5. \A i \in 1..Len(rows) : rows[i] \in Row
  BY <1>1
<1> HIDE DEF Row
<1> QED
  BY <1>1, <1>3, <1>4, <1>5 DEF Live

(* For an agent that list() shows, getByName finds the row list() shows.    *)
LEMMA ListedIsFound ==
  ASSUME TypeOK, NEW n, Listed(n)
  PROVE  GetByName(n) = LastRow(n)
<1>1. DOMAIN rows = 1..Len(rows) /\ Len(rows) \in Nat
  BY DEF TypeOK
<1>2. /\ Mine(n) \in SUBSET (1..Len(rows)) /\ Mine(n) # {}
      /\ LastRow(n) = rows[Max(Mine(n))]
      /\ ~ LastRow(n).dereg
  BY <1>1 DEF Mine, Listed, LastRow, Newest
<1>3. Max(Mine(n)) \in Mine(n) /\ \A i \in Mine(n) : i <= Max(Mine(n))
  BY <1>1, <1>2, MaxIsGreatest
<1> DEFINE m == Max(Mine(n))
<1>4. m \in Live(n) /\ \A i \in Live(n) : i <= m
  BY <1>2, <1>3 DEF Live, Mine
<1>5. Live(n) \in SUBSET (1..Len(rows))
  BY <1>1 DEF Live
<1> HIDE DEF m
<1>6. Max(Live(n)) = m
  BY <1>1, <1>4, <1>5, MaxIs
<1> QED
  BY <1>2, <1>4, <1>6 DEF m, Live, GetByName, Newest

(* Inserting a row changes what list() shows of its agent, and of no other. *)
LEMMA InsertedRow ==
  ASSUME TypeOK, NEW r \in Row, rows' = Append(rows, r), NEW n
  PROVE  LastRow(n)' = IF r.name = n THEN r ELSE LastRow(n)
<1> DEFINE k == Len(rows) + 1
<1>1. /\ DOMAIN rows = 1..Len(rows) /\ Len(rows) \in Nat
      /\ DOMAIN rows' = 1..k /\ k \in Nat
      /\ rows'[k] = r
      /\ \A i \in 1..Len(rows) : rows'[i] = rows[i]
  <2> HIDE DEF Row
  <2> QED
    BY DEF TypeOK
<1>2. Mine(n)' = {i \in 1..k : rows'[i].name = n}
  BY <1>1 DEF Mine
<1>3. CASE r.name = n
  <2>1. /\ Mine(n)' \in SUBSET (1..k)
        /\ k \in Mine(n)'
        /\ \A i \in Mine(n)' : i <= k
    BY <1>1, <1>2, <1>3
  <2>2. Max(Mine(n)') = k
    BY <1>1, <2>1, MaxIs
  <2> QED
    BY <1>1, <1>3, <2>1, <2>2 DEF Mine, LastRow, Newest
<1>4. CASE r.name # n
  <2>1. Mine(n)' = Mine(n)
    BY <1>1, <1>2, <1>4 DEF Mine
  <2>2. CASE Mine(n) = {}
    BY <1>4, <2>1, <2>2 DEF Mine, LastRow, Newest
  <2>3. CASE Mine(n) # {}
    <3>1. Mine(n) \in SUBSET (1..Len(rows))
      BY <1>1 DEF Mine
    <3>2. Max(Mine(n)) \in 1..Len(rows)
      BY <1>1, <2>3, <3>1, MaxIsGreatest
    <3>3. rows'[Max(Mine(n))] = rows[Max(Mine(n))]
      BY <1>1, <3>2
    <3> QED
      BY <1>4, <2>1, <2>3, <3>3 DEF Mine, LastRow, Newest
  <2> QED
    BY <2>2, <2>3
<1> QED
  BY <1>3, <1>4

-----------------------------------------------------------------------------
(* Type correctness.                                                        *)

(* A registration starts without switches and a toggle changes one of the   *)
(* switches it read, so what a suspended call will insert is a row.         *)
LEMMA SuspendedRow ==
  ASSUME TypeOK, NEW op \in Ops, NEW kind \in Kinds, NEW row \in Row,
         Suspend(op, kind, row)
  PROVE  TypeOK'
BY DEF TypeOK, Suspend

(* Every operation of the registry keeps the types.                         *)
LEMMA NextTypes == TypeOK /\ [Next]_vars => TypeOK'
<1> SUFFICES ASSUME TypeOK, [Next]_vars PROVE TypeOK'
  OBVIOUS
<1>1. CASE \E op \in Ops, n \in Agents : Register(op, n)
  <2>1. PICK op \in Ops, n \in Agents : Register(op, n)
    BY <1>1
  <2>2. [name |-> n, status |-> "active",
         config |-> [t \in Tenants |-> "unset"], dereg |-> FALSE] \in Row
    BY DEF Row, Switches
  <2> QED
    BY <2>1, <2>2, SuspendedRow DEF Register, Kinds
<1>2. CASE \E op \in Ops, n \in Agents : Deregister(op, n)
  <2>1. PICK op \in Ops, n \in Agents : Deregister(op, n)
    BY <1>2
  <2>2. GetByName(n) \in Row
    BY <2>1, FoundRow DEF Deregister
  <2>3. [GetByName(n) EXCEPT !.status = "inactive", !.dereg = TRUE] \in Row
    BY <2>2 DEF Row
  <2> QED
    BY <2>1, <2>3, SuspendedRow DEF Deregister, Kinds
<1>3. CASE \E op \in Ops, n \in Agents, t \in Tenants, v \in {"on", "off"} :
              SetTenantConfig(op, n, t, v)
  <2>1. PICK op \in Ops, n \in Agents, t \in Tenants, v \in {"on", "off"} :
               SetTenantConfig(op, n, t, v)
    BY <1>3
  <2>2. GetByName(n) \in Row
    BY <2>1, FoundRow DEF SetTenantConfig
  <2>3. [GetByName(n) EXCEPT !.config[t] = v] \in Row
    BY <2>2 DEF Row, Switches
  <2> QED
    BY <2>1, <2>3, SuspendedRow DEF SetTenantConfig, Kinds
<1>4. CASE \E op \in Ops : Insert(op)
  BY <1>4 DEF TypeOK, Insert
<1>5. CASE UNCHANGED vars
  BY <1>5 DEF TypeOK, vars
<1> QED
  BY <1>1, <1>2, <1>3, <1>4, <1>5 DEF Next

(* The table holds rows, and a suspended call holds one row to insert.      *)
THEOREM RegistryTypes == Spec => []TypeOK
<1>1. Init => TypeOK
  BY DEF Init, TypeOK
<1> QED
  BY <1>1, NextTypes, PTL DEF Spec

-----------------------------------------------------------------------------
(* The table as a directory.                                                *)

(* What the code leaves to its callers: one call at a time, and a toggle    *)
(* only of an agent that list() shows.                                      *)
Disciplined == ListedOnly /\ \A o, p \in Ops : o = p

(* What a suspended call is about to insert: a registration without         *)
(* switches, a tombstone, or the switches that list() shows of an agent     *)
(* with one of them set.  With a second caller the last part can be out of  *)
(* date, which is why the theorem below needs the discipline.               *)
PendingFits(op) ==
  LET row == pending[op].row
  IN  \/ /\ ~ row.dereg
         /\ row.config = [t \in Tenants |-> "unset"]
      \/ row.dereg
      \/ /\ ~ row.dereg
         /\ Listed(row.name)
         /\ \E t \in Tenants, v \in {"on", "off"} :
               row.config = [LastRow(row.name).config EXCEPT ![t] = v]

Fitting == \A op \in Ops : pending[op] # Idle => PendingFits(op)

(* The row list() shows is a row, so it is not getByName's null.            *)
LEMMA ShownRow ==
  ASSUME TypeOK, NEW n, LastRow(n) # Absent
  PROVE  LastRow(n) \in Row
<1>1. rows \in Seq(Row) /\ DOMAIN rows = 1..Len(rows) /\ Len(rows) \in Nat
  BY DEF TypeOK
<1>2. Mine(n) \in SUBSET (1..Len(rows)) /\ Mine(n) # {}
  BY <1>1 DEF Mine, LastRow, Newest
<1>3. Max(Mine(n)) \in 1..Len(rows)
  BY <1>1, <1>2, MaxIsGreatest
<1>4. LastRow(n) = rows[Max(Mine(n))]
  BY <1>2 DEF Mine, LastRow, Newest
<1> HIDE DEF Row
<1> QED
  BY <1>1, <1>3, <1>4

(* A call that suspends leaves the table, and what list() shows, alone.     *)
LEMMA UnchangedRows ==
  ASSUME UNCHANGED rows
  PROVE  /\ Shown' = Shown
         /\ \A n : LastRow(n)' = LastRow(n) /\ (Listed(n)' <=> Listed(n))
<1>1. \A n : LastRow(n)' = LastRow(n)
  BY DEF LastRow, Newest
<1>2. \A n : Listed(n)' <=> Listed(n)
  BY <1>1 DEF Listed
<1> QED
  BY <1>1, <1>2 DEF Shown

(* Inserting a row changes the directory at its agent only.                 *)
LEMMA InsertedShown ==
  ASSUME RegistryAssumption, TypeOK, NEW r \in Row, rows' = Append(rows, r)
  PROVE  /\ r.name \in Agents
         /\ Shown' = [Shown EXCEPT
                        ![r.name] = IF r.dereg THEN Absent ELSE r.config]
<1>1. r.name \in Agents /\ r # Absent
  BY DEF Row, RegistryAssumption
<1>2. ASSUME NEW n \in Agents
      PROVE  /\ Listed(n)' <=> (IF r.name = n THEN ~ r.dereg ELSE Listed(n))
             /\ LastRow(n)' = (IF r.name = n THEN r ELSE LastRow(n))
  <2>1. LastRow(n)' = (IF r.name = n THEN r ELSE LastRow(n))
    BY InsertedRow
  <2> QED
    BY <1>1, <2>1 DEF Listed
<1>3. ASSUME NEW n \in Agents
      PROVE  (IF Listed(n)' THEN LastRow(n)'.config ELSE Absent)
               = (IF r.name = n THEN IF r.dereg THEN Absent ELSE r.config
                                ELSE IF Listed(n) THEN LastRow(n).config ELSE Absent)
  BY <1>2
<1> QED
  BY <1>1, <1>3 DEF Shown

(* A suspended call that fits becomes a registration, a deregistration or a *)
(* toggle of the directory when it resumes.                                 *)
LEMMA InsertImplements ==
  ASSUME RegistryAssumption, TypeOK, Fitting, NEW op \in Ops, Insert(op)
  PROVE  Directory!Next
<1> DEFINE r == pending[op].row
<1>1. r \in Row /\ rows' = Append(rows, r) /\ PendingFits(op)
  BY DEF TypeOK, Insert, Fitting
<1>2. /\ r.name \in Agents
      /\ Shown' = [Shown EXCEPT
                     ![r.name] = IF r.dereg THEN Absent ELSE r.config]
  <2> HIDE DEF r
  <2> QED
    BY <1>1, InsertedShown
<1>3. CASE ~ r.dereg /\ r.config = [t \in Tenants |-> "unset"]
  <2>1. Directory!Register(r.name)
    BY <1>2, <1>3 DEF Directory!Register, Directory!Fresh
  <2> QED
    BY <1>2, <2>1 DEF Directory!Next
<1>4. CASE r.dereg
  <2>1. Directory!Deregister(r.name)
    BY <1>2, <1>4 DEF Directory!Deregister
  <2> QED
    BY <1>2, <2>1 DEF Directory!Next
<1>5. CASE /\ ~ r.dereg
           /\ Listed(r.name)
           /\ \E t \in Tenants, v \in {"on", "off"} :
                 r.config = [LastRow(r.name).config EXCEPT ![t] = v]
  <2>1. PICK t \in Tenants, v \in {"on", "off"} :
               r.config = [LastRow(r.name).config EXCEPT ![t] = v]
    BY <1>5
  <2>2. Shown[r.name] = LastRow(r.name).config
    BY <1>2, <1>5 DEF Shown
  <2>3. LastRow(r.name).config # Absent
    <3>1. LastRow(r.name) \in Row
      BY <1>5, ShownRow DEF Listed
    <3> QED
      BY <3>1 DEF Row, RegistryAssumption
  <2>4. Shown' = [Shown EXCEPT ![r.name] = [LastRow(r.name).config EXCEPT ![t] = v]]
    BY <1>2, <1>5, <2>1
  <2>5. Shown' = [Shown EXCEPT ![r.name] = [@ EXCEPT ![t] = v]]
    BY <2>2, <2>4
  <2>6. Directory!Toggle(r.name, t, v)
    BY <2>2, <2>3, <2>5 DEF Directory!Toggle
  <2> QED
    BY <1>2, <2>1, <2>6 DEF Directory!Next
<1> QED
  BY <1>1, <1>3, <1>4, <1>5 DEF PendingFits

(* A call that suspends with a fitting row keeps every suspended call       *)
(* fitting: the table is as it was.                                         *)
LEMMA SuspendFits ==
  ASSUME TypeOK, Fitting, NEW op \in Ops, NEW kind, NEW row,
         Suspend(op, kind, row),
         \/ ~ row.dereg /\ row.config = [t \in Tenants |-> "unset"]
         \/ row.dereg
         \/ /\ ~ row.dereg
            /\ Listed(row.name)
            /\ \E t \in Tenants, v \in {"on", "off"} :
                  row.config = [LastRow(row.name).config EXCEPT ![t] = v]
  PROVE  Fitting' /\ Shown' = Shown
<1>1. /\ \A n : LastRow(n)' = LastRow(n) /\ (Listed(n)' <=> Listed(n))
      /\ Shown' = Shown
  BY UnchangedRows DEF Suspend
<1>2. pending' = [pending EXCEPT ![op] = [kind |-> kind, row |-> row]]
  BY DEF Suspend
<1>3. pending'[op].row = row /\ \A o \in Ops \ {op} : pending'[o] = pending[o]
  BY <1>2 DEF TypeOK
<1>4. ASSUME NEW o \in Ops, pending'[o] # Idle
      PROVE  PendingFits(o)'
  <2>1. CASE o = op
    BY <1>1, <1>3, <2>1 DEF PendingFits
  <2>2. CASE o # op
    <3>1. pending'[o] = pending[o] /\ PendingFits(o)
      BY <1>3, <1>4, <2>2 DEF Fitting
    <3> QED
      BY <1>1, <3>1 DEF PendingFits
  <2> QED
    BY <2>1, <2>2
<1> QED
  BY <1>1, <1>4 DEF Fitting

(* Under the discipline every step is a step of the directory or none.      *)
LEMMA NextImplements ==
  ASSUME RegistryAssumption, Disciplined
  PROVE  TypeOK /\ Fitting /\ [Next]_vars
           => Fitting' /\ (Directory!Next \/ Shown' = Shown)
<1> SUFFICES ASSUME TypeOK, Fitting, [Next]_vars
             PROVE  Fitting' /\ (Directory!Next \/ Shown' = Shown)
  OBVIOUS
<1>1. CASE \E op \in Ops, n \in Agents : Register(op, n)
  <2>1. PICK op \in Ops, n \in Agents : Register(op, n)
    BY <1>1
  <2> DEFINE row == [name |-> n, status |-> "active",
                     config |-> [t \in Tenants |-> "unset"], dereg |-> FALSE]
  <2>2. Suspend(op, "register", row)
    BY <2>1 DEF Register
  <2>3. ~ row.dereg /\ row.config = [t \in Tenants |-> "unset"]
    OBVIOUS
  <2> HIDE DEF row
  <2> QED
    BY <2>2, <2>3, SuspendFits
<1>2. CASE \E op \in Ops, n \in Agents : Deregister(op, n)
  <2>1. PICK op \in Ops, n \in Agents : Deregister(op, n)
    BY <1>2
  <2> DEFINE row == [GetByName(n) EXCEPT !.status = "inactive", !.dereg = TRUE]
  <2>2. Suspend(op, "deregister", row)
    BY <2>1 DEF Deregister
  <2>3. row.dereg
    <3>1. GetByName(n) \in Row
      BY <2>1, FoundRow DEF Deregister
    <3> QED
      BY <3>1 DEF Row
  <2> HIDE DEF row
  <2> QED
    BY <2>2, <2>3, SuspendFits
<1>3. CASE \E op \in Ops, n \in Agents, t \in Tenants, v \in {"on", "off"} :
              SetTenantConfig(op, n, t, v)
  <2>1. PICK op \in Ops, n \in Agents, t \in Tenants, v \in {"on", "off"} :
               SetTenantConfig(op, n, t, v)
    BY <1>3
  <2> DEFINE row == [GetByName(n) EXCEPT !.config[t] = v]
  <2>2. Suspend(op, "toggle", row)
    BY <2>1 DEF SetTenantConfig
  <2>3. /\ Listed(n)
        /\ GetByName(n) = LastRow(n)
        /\ LastRow(n) \in Row /\ LastRow(n).name = n /\ ~ LastRow(n).dereg
    <3>1. Listed(n)
      BY <2>1 DEF SetTenantConfig, Disciplined
    <3> QED
      BY <2>1, <3>1, ListedIsFound, FoundRow DEF SetTenantConfig, Listed
  <2>4. /\ ~ row.dereg
        /\ row.name = n
        /\ row.config = [LastRow(n).config EXCEPT ![t] = v]
    BY <2>3 DEF Row
  <2> HIDE DEF row
  <2> QED
    BY <2>2, <2>3, <2>4, SuspendFits
<1>4. CASE \E op \in Ops : Insert(op)
  <2>1. PICK op \in Ops : Insert(op)
    BY <1>4
  <2>2. Directory!Next
    BY <2>1, InsertImplements
  <2>3. \A o \in Ops : pending'[o] = Idle
    BY <2>1 DEF Insert, Disciplined, TypeOK
  <2> QED
    BY <2>2, <2>3 DEF Fitting
<1>5. CASE UNCHANGED vars
  <2>1. UNCHANGED rows /\ UNCHANGED pending
    BY <1>5 DEF vars
  <2> QED
    BY <2>1, UnchangedRows DEF Fitting, PendingFits
<1> QED
  BY <1>1, <1>2, <1>3, <1>4, <1>5 DEF Next

(* Called one at a time, and toggled only when listed, the append-only      *)
(* table of register, deregister, setTenantConfig and list is exactly the   *)
(* directory: whatever the number of agents, tenants and rows, the newest   *)
(* row of a name carries all that the earlier ones said.                    *)
THEOREM RegistryImplements ==
  ASSUME RegistryAssumption, Disciplined
  PROVE  Spec => ImplementsDirectory
<1>1. Init => TypeOK /\ Fitting
  BY DEF Init, TypeOK, Fitting
<1>2. Init => Directory!Init
  <2> SUFFICES ASSUME Init PROVE Directory!Init
    OBVIOUS
  <2>1. \A n : LastRow(n) = Absent
    BY DEF Init, LastRow, Newest
  <2> QED
    BY <2>1 DEF Directory!Init, Shown, Listed
<1>3. TypeOK /\ Fitting /\ [Next]_vars => TypeOK' /\ Fitting' /\ [Directory!Next]_Shown
  BY NextTypes, NextImplements
<1> QED
  BY <1>1, <1>2, <1>3, PTL DEF Spec, ImplementsDirectory, Directory!Spec
=============================================================================
