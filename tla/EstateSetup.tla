----------------------------- MODULE EstateSetup -----------------------------
(***************************************************************************)
(* Apartment types and the levies priced by them (src/apis/estate-config,  *)
(* createLevy and updateLevy of src/apis/finance, the profile updates of   *)
(* src/apis/auth and resident that give a resident a type).                *)
(*                                                                         *)
(* Every handler looks before it writes: the duplicate of a name, whether  *)
(* a type is in use, which types are active and what type each resident    *)
(* has.  The database keeps types that levies name (a restricting foreign  *)
(* key) and takes a deleted type from the residents who have it (SET NULL).*)
(***************************************************************************)
EXTENDS FiniteSets, Server

CONSTANTS
    Residents, Types, Levies,
    Names,          \* names of types
    Lowered,        \* the names, told apart without regard to case
    Amounts

VARIABLES
    concern,        \* what this behaviour is about: names or prices
    type,           \* ApartmentType: no row, active or not, deleted
    name,           \* ApartmentType.name
    home,           \* Resident.apartmentTypeId
    applied,        \* EstateSettings.applyApartmentType
    price,          \* LevyApartmentTypePrice of each levy
    charge,         \* LevyAssignment.amount of each levy and resident
    step, task,     \* a request: position, arguments and what it has read
    stale           \* history: types and residents written while a request
                    \* that had read them was under way

tables == <<type, name, home, applied, price, charge>>
vars   == <<concern, tables, step, task, stale>>

Steps  == {"idle", "create", "rename", "retire", "erase", "home",
           "prices", "residents", "levy", "reprice"}
NoType == [x \in Types |-> None]
NoTask == [type |-> None, name |-> None, who |-> None, levy |-> None,
           prices |-> NoType, homes |-> [r \in Residents |-> None],
           by |-> FALSE, amount |-> None]

(* Behaviours about prices start with types that tell each other apart.    *)
FirstNames == CHOOSE f \in [Types -> Names] :
                 \A x, y \in Types : x # y => Lowered[f[x]] # Lowered[f[y]]

Init ==
    /\ concern \in {"names", "prices"}
    /\ type = [x \in Types |-> IF concern = "names" THEN "NONE" ELSE "ACTIVE"]
    /\ name = IF concern = "names" THEN NoType ELSE FirstNames
    /\ home = [r \in Residents |-> None]
    /\ applied = FALSE
    /\ price = [l \in Levies |-> NoType]
    /\ charge = [l \in Levies |-> [r \in Residents |-> None]]
    /\ step = [t \in Threads |-> "idle"]
    /\ task = [t \in Threads |-> NoTask]
    /\ stale = {}

-----------------------------------------------------------------------------
(* Requests. *)

GoTo(t, place, new) ==
    /\ step' = [step EXCEPT ![t] = place]
    /\ task' = [task EXCEPT ![t] = new]

Start(t, place, new) == step[t] = "idle" /\ GoTo(t, place, new)
Leave(t) == GoTo(t, "idle", NoTask)

(* A refusal, a broken key, an await that throws, the death of the process.*)
Fail(t) ==
    /\ step[t] # "idle"
    /\ Leave(t)
    /\ UNCHANGED <<concern, tables, stale>>

Touch(t, things) ==
    stale' = IF \E v \in Threads \ {t} : step[v] # "idle"
             THEN stale \cup things ELSE stale

Rows    == {x \in Types : type[x] \in {"ACTIVE", "INACTIVE"}}
Active  == {x \in Types : type[x] = "ACTIVE"}
Created(l) == \E r \in Residents : charge[l][r] # None

-----------------------------------------------------------------------------
(* Types. *)

(* Names are compared without case by the handlers, and exactly by the     *)
(* unique key that decides when two of them are at work.                   *)
Taken(x, n)  == \E y \in Rows \ {x} : Lowered[name[y]] = Lowered[n]
KeyFree(x, n) == \A y \in Rows \ {x} : name[y] # n

BeginCreateType(t, x, n) ==
    /\ concern = "names" /\ type[x] = "NONE" /\ ~Taken(x, n)
    /\ Start(t, "create", [NoTask EXCEPT !.type = x, !.name = n])
    /\ UNCHANGED <<concern, tables, stale>>

CreateType(t) ==
    LET x == task[t].type IN
    /\ step[t] = "create" /\ type[x] = "NONE" /\ KeyFree(x, task[t].name)
    /\ type' = [type EXCEPT ![x] = "ACTIVE"]
    /\ name' = [name EXCEPT ![x] = task[t].name]
    /\ Touch(t, {x})
    /\ Leave(t)
    /\ UNCHANGED <<concern, home, applied, price, charge>>

(* A name that differs in case only is not looked up. *)
BeginRenameType(t, x, n) ==
    /\ concern = "names" /\ x \in Rows
    /\ Lowered[n] = Lowered[name[x]] \/ ~Taken(x, n)
    /\ Start(t, "rename", [NoTask EXCEPT !.type = x, !.name = n])
    /\ UNCHANGED <<concern, tables, stale>>

RenameType(t) ==
    LET x == task[t].type IN
    /\ step[t] = "rename" /\ x \in Rows /\ KeyFree(x, task[t].name)
    /\ name' = [name EXCEPT ![x] = task[t].name]
    /\ Touch(t, {x})
    /\ Leave(t)
    /\ UNCHANGED <<concern, type, home, applied, price, charge>>

(* updateApartmentType with dto.active *)
SwitchType(x) ==
    /\ x \in Rows
    /\ type' = [type EXCEPT ![x] = IF @ = "ACTIVE" THEN "INACTIVE" ELSE "ACTIVE"]
    /\ stale' = IF \E v \in Threads : step[v] # "idle" THEN stale \cup {x} ELSE stale
    /\ UNCHANGED <<concern, name, home, applied, price, charge, step, task>>

(* deleteApartmentType counts residents and prices before it decides.      *)
InUse_ByLevies(x) == \E l \in Levies : price[l][x] # None

InUse(x) ==
    \/ \E r \in Residents : home[r] = x
    \/ \E l \in Levies : price[l][x] # None

BeginDeleteType(t, x) ==
    /\ x \in Rows
    /\ Start(t, IF InUse(x) THEN "retire" ELSE "erase",
             [NoTask EXCEPT !.type = x])
    /\ UNCHANGED <<concern, tables, stale>>

RetireType(t) ==
    LET x == task[t].type IN
    /\ step[t] = "retire" /\ x \in Rows
    /\ type' = [type EXCEPT ![x] = "INACTIVE"]
    /\ Touch(t, {x})
    /\ Leave(t)
    /\ UNCHANGED <<concern, name, home, applied, price, charge>>

EraseType(t) ==
    LET x == task[t].type IN
    /\ step[t] = "erase" /\ x \in Rows
    /\ \A l \in Levies : price[l][x] = None
    /\ type' = [type EXCEPT ![x] = "GONE"]
    /\ home' = [r \in Residents |-> IF home[r] = x THEN None ELSE home[r]]
    /\ Touch(t, {x} \cup {r \in Residents : home[r] = x})
    /\ Leave(t)
    /\ UNCHANGED <<concern, name, applied, price, charge>>

-----------------------------------------------------------------------------
(* Residents and settings. *)

(* The type is looked up among the active ones, then written with the      *)
(* profile; the key only asks that it still exists.                        *)
BeginChooseType(t, r, x) ==
    /\ concern = "prices" /\ x \in Active
    /\ Start(t, "home", [NoTask EXCEPT !.who = r, !.type = x])
    /\ UNCHANGED <<concern, tables, stale>>

ChooseType(t) ==
    /\ step[t] = "home" /\ task[t].type \in Rows
    /\ home' = [home EXCEPT ![task[t].who] = task[t].type]
    /\ Touch(t, {task[t].who, task[t].type})
    /\ Leave(t)
    /\ UNCHANGED <<concern, type, name, applied, price, charge>>

UpdateSettings ==
    /\ concern = "prices"
    /\ applied' = ~applied
    /\ UNCHANGED <<concern, type, name, home, price, charge, step, task, stale>>

-----------------------------------------------------------------------------
(* Levies. *)

PriceLists == [Types -> Amounts \cup {None}]
Listed(p)  == {x \in Types : p[x] # None}

(* createLevy reads the setting, ... *)
BeginLevy(t, l, amount) ==
    /\ concern = "prices" /\ ~Created(l) /\ \A v \in Threads : task[v].levy # l
    /\ Start(t, IF applied THEN "prices" ELSE "residents",
             [NoTask EXCEPT !.levy = l, !.amount = amount, !.by = applied])
    /\ UNCHANGED <<concern, tables, stale>>

(* ... buildApartmentTypePriceMap: a price for every active type and for   *)
(* no other, ...                                                           *)
Complete(p) == Active # {} /\ Listed(p) = Active

ReadPrices(t) ==
    /\ step[t] = "prices"
    /\ \E p \in PriceLists :
          /\ Complete(p)
          /\ GoTo(t, "residents", [task[t] EXCEPT !.prices = p])
    /\ UNCHANGED <<concern, tables, stale>>

(* ... the residents, each with a type that has a price, ...               *)
Chargeable(t) ==
    task[t].by => \A r \in Residents : home[r] \in Listed(task[t].prices)

ReadResidents(t) ==
    /\ step[t] = "residents" /\ Chargeable(t)
    /\ GoTo(t, "levy", [task[t] EXCEPT !.homes = home])
    /\ UNCHANGED <<concern, tables, stale>>

(* ... and creates levy, prices and assignments in one statement.          *)
AmountFor(t, r) ==
    IF task[t].by THEN task[t].prices[task[t].homes[r]] ELSE task[t].amount

CreateLevy(t) ==
    LET l == task[t].levy IN
    /\ step[t] = "levy" /\ Listed(task[t].prices) \subseteq Rows
    /\ price' = [price EXCEPT ![l] = task[t].prices]
    /\ charge' = [charge EXCEPT ![l] = [r \in Residents |-> AmountFor(t, r)]]
    /\ Touch(t, Listed(task[t].prices))
    /\ Leave(t)
    /\ UNCHANGED <<concern, type, name, home, applied>>

(* updateLevy replaces the prices in a transaction and leaves the charges  *)
(* of residents alone.                                                     *)
BeginUpdateLevy(t, l) ==
    /\ Created(l) /\ applied
    /\ \E p \in PriceLists :
          /\ Complete(p)
          /\ Start(t, "reprice", [NoTask EXCEPT !.levy = l, !.prices = p])
    /\ UNCHANGED <<concern, tables, stale>>

UpdateLevy(t) ==
    /\ step[t] = "reprice" /\ Listed(task[t].prices) \subseteq Rows
    /\ price' = [price EXCEPT ![task[t].levy] = task[t].prices]
    /\ Touch(t, Listed(task[t].prices))
    /\ Leave(t)
    /\ UNCHANGED <<concern, type, name, home, applied, charge>>

-----------------------------------------------------------------------------
Next ==
    \/ UpdateSettings
    \/ \E x \in Types : SwitchType(x)
    \/ \E t \in Threads :
         \/ CreateType(t) \/ RenameType(t) \/ RetireType(t) \/ EraseType(t)
         \/ ChooseType(t) \/ ReadPrices(t) \/ ReadResidents(t)
         \/ CreateLevy(t) \/ UpdateLevy(t) \/ Fail(t)
         \/ \E x \in Types : BeginDeleteType(t, x)
         \/ \E x \in Types, n \in Names :
              BeginCreateType(t, x, n) \/ BeginRenameType(t, x, n)
         \/ \E x \in Types, r \in Residents : BeginChooseType(t, r, x)
         \/ \E l \in Levies, amount \in Amounts : BeginLevy(t, l, amount)
         \/ \E l \in Levies : BeginUpdateLevy(t, l)

Spec == Init /\ [][Next]_vars

-----------------------------------------------------------------------------
TypeOK ==
    /\ type \in [Types -> {"NONE", "ACTIVE", "INACTIVE", "GONE"}]
    /\ name \in [Types -> Names \cup {None}]
    /\ home \in [Residents -> Types \cup {None}]
    /\ applied \in BOOLEAN
    /\ price \in [Levies -> PriceLists]
    /\ charge \in [Levies -> [Residents -> Amounts \cup {None}]]
    /\ step \in [Threads -> Steps]
    /\ stale \subseteq Types \cup Residents

(* deleteApartmentType:477 "Apartment type is in use, so it was            *)
(* deactivated to preserve history": a type that a resident has or a levy  *)
(* names is not deleted, unless it came into use while the deletion was    *)
(* under way; and then only residents lose it, never a levy.               *)
UseIsKept ==
    \A x \in Types : type[x] # "GONE" /\ type'[x] = "GONE" =>
        /\ \A l \in Levies : price[l][x] = None
        /\ x \notin stale => \A r \in Residents : home[r] # x

(* When a levy is priced by types, every resident is charged the price the *)
(* levy has for the type the resident has, unless resident or type were    *)
(* changed meanwhile.                                                      *)
ChargesFollowPrices ==
    \A l \in Levies, r \in Residents :
        LET x == home[r] IN
        charge[l][r] = None /\ charge'[l][r] # None /\ Listed(price'[l]) # {}
        => \/ {r, x} \cap stale # {}
           \/ x # None /\ charge'[l][r] = price'[l][x]

(* Two types that exist have names that differ by more than case, unless   *)
(* one was created or renamed while another was.                           *)
NamesDiffer ==
    \A x, y \in Rows : x # y /\ Lowered[name[x]] = Lowered[name[y]]
                       => {x, y} \cap stale # {}

(* Action property.  No step breaks what the setup of the estate promises: *)
(* types in use are kept, residents are charged by the price of their type,*)
(* names of types tell them apart (estate-config.service, createLevy).     *)
SetupHolds == [][UseIsKept /\ ChargesFollowPrices /\ NamesDiffer']_vars
=============================================================================
