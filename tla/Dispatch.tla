------------------------------ MODULE Dispatch ------------------------------
(***************************************************************************)
(* How a script's object:name() finds the method of a controller.  Luau    *)
(* asks once for each string object which atom its name has, the virtual   *)
(* machine hands out atoms from one int16 counter, and every controller    *)
(* remembers under the atom what it has found under the name.              *)
(*                                                                         *)
(* Atoms are counted from ATOM_UNDEF, which is 0 here, and wrap at         *)
(* AtomCount (2^16 in the code).  A delegate is the name it is registered  *)
(* under.  Static methods and getters are looked up by name alone, with no *)
(* state, and have no part in this.                                        *)
(***************************************************************************)
EXTENDS Naturals

CONSTANTS
    Controllers,
    MethodNames,
    NoName,    \* stands for no name
    AtomCount, \* values of an int16_t
    MaxGiven   \* bound: atoms ever handed out

ASSUME NoNameIsNone == NoName \notin MethodNames
ASSUME AtomsAreNatural == AtomCount \in Nat \ {0, 1} /\ MaxGiven \in Nat

ATOM_UNDEF == 0
Atoms == 0..AtomCount - 1
Answer(c, n, ran) == [controller |-> c, name |-> n, ran |-> ran]

VARIABLES
    methods,  \* _entityCallbacks of each controller
    fast,     \* _fastEntityCallbacks of each controller
    atoms,    \* ScriptVM::_atoms: at most one atom for each name
    nextAtom, \* ScriptVM::_nextAtom
    cached,   \* TString::atom of the string object that has the name
    owner,    \* history: the name for which an atom was handed out last
    given,    \* history: how many atoms were handed out
    answer    \* the last call: of what, and what ran (NoName for an error)

dispatchVars == <<methods, fast, atoms, nextAtom, cached, owner, given, answer>>
numbering == <<atoms, nextAtom, cached, owner, given>>

DispatchTypeOK ==
    /\ methods \in [Controllers -> SUBSET MethodNames]
    /\ fast \in [Controllers -> [Atoms -> MethodNames \union {NoName}]]
    /\ atoms \in [MethodNames -> SUBSET Atoms]
    /\ nextAtom \in Atoms
    /\ cached \in [MethodNames -> Atoms]
    /\ owner \in [Atoms -> MethodNames \union {NoName}]
    /\ given \in 0..MaxGiven
    /\ \/ answer = NoName
       \/ \E c \in Controllers, n \in MethodNames, ran \in MethodNames \union {NoName} :
            answer = Answer(c, n, ran)

DispatchInit ==
    /\ methods \in [Controllers -> SUBSET MethodNames]
    /\ fast = [c \in Controllers |-> [a \in Atoms |-> NoName]]
    /\ atoms = [n \in MethodNames |-> {}]
    /\ nextAtom = ATOM_UNDEF + 1
    /\ cached = [n \in MethodNames |-> ATOM_UNDEF]
    /\ owner = [a \in Atoms |-> NoName]
    /\ given = 0
    /\ answer = NoName

-----------------------------------------------------------------------------
(* _nextAtom++, as an int16_t.                                             *)
Successor(a) == IF a = AtomCount - 1 THEN 0 ELSE a + 1

(* ScriptVM::UserAtom: the atom of a name that has one, or a new one.      *)
UserAtom(n, atom) ==
    \/ /\ atoms[n] # {}
       /\ atom \in atoms[n]
       /\ UNCHANGED <<atoms, nextAtom, owner, given>>
    \/ /\ atoms[n] = {}
       /\ given < MaxGiven
       /\ atom = nextAtom
       /\ atoms' = [atoms EXCEPT ![n] = {nextAtom}]
       /\ nextAtom' = Successor(nextAtom)
       /\ owner' = [owner EXCEPT ![nextAtom] = n]
       /\ given' = given + 1

(* Luau asks for the atom of a string object until it has one.             *)
AtomOf(n, atom) ==
    \/ /\ cached[n] # ATOM_UNDEF
       /\ atom = cached[n]
       /\ UNCHANGED numbering
    \/ /\ cached[n] = ATOM_UNDEF
       /\ UserAtom(n, atom)
       /\ cached' = [cached EXCEPT ![n] = atom]

(* Mutant of Namecall: the fast table gets the name, registered or not.    *)
MutNamecall(c, n, atom) ==
    /\ AtomOf(n, atom)
    /\ \/ /\ atom # ATOM_UNDEF /\ fast[c][atom] # NoName
          /\ answer' = Answer(c, n, fast[c][atom])
          /\ UNCHANGED fast
       \/ /\ atom = ATOM_UNDEF \/ fast[c][atom] = NoName
          /\ answer' = Answer(c, n, IF n \in methods[c] THEN n ELSE NoName)
          /\ fast' = [fast EXCEPT ![c] = [@ EXCEPT ![atom] = n]]
    /\ UNCHANGED methods

(* IScriptController::Namecall.  A name that is not found leaves no trace. *)
Namecall(c, n, atom) ==
    /\ AtomOf(n, atom)
    /\ \/ /\ atom # ATOM_UNDEF /\ fast[c][atom] # NoName
          /\ answer' = Answer(c, n, fast[c][atom])
          /\ UNCHANGED fast
       \/ /\ atom = ATOM_UNDEF \/ fast[c][atom] = NoName
          /\ n \notin methods[c]
          /\ answer' = Answer(c, n, NoName)
          /\ UNCHANGED fast
       \/ /\ atom = ATOM_UNDEF \/ fast[c][atom] = NoName
          /\ n \in methods[c]
          /\ answer' = Answer(c, n, n)
          /\ fast' = [fast EXCEPT ![c] = [@ EXCEPT ![atom] = n]]
    /\ UNCHANGED methods

(* "This can be called at any time".  Once for a name: findForAdd's answer *)
(* is not asked whether the name is there already.                         *)
AddMethod(c, n) ==
    /\ n \notin methods[c]
    /\ methods' = [methods EXCEPT ![c] = @ \union {n}]
    /\ UNCHANGED <<fast, numbering, answer>>

(* ScriptVM::CreateAtom: native code asks for a name's atom.               *)
CreateAtom(n, atom) ==
    /\ AtomOf(n, atom)
    /\ UNCHANGED <<methods, fast, answer>>

(* Luau collects the string object with the name.  The key of _atoms is a  *)
(* view of its characters, which are gone; whether the name is found again *)
(* depends on what is in that memory now.                                  *)
CollectName(n) ==
    /\ cached[n] # ATOM_UNDEF
    /\ cached' = [cached EXCEPT ![n] = ATOM_UNDEF]
    /\ \/ UNCHANGED atoms
       \/ atoms' = [atoms EXCEPT ![n] = {}]
    /\ UNCHANGED <<methods, fast, nextAtom, owner, given, answer>>

DispatchNext ==
    \/ \E n \in MethodNames, atom \in Atoms :
         \/ \E c \in Controllers : Namecall(c, n, atom)
         \/ CreateAtom(n, atom)
    \/ \E c \in Controllers, n \in MethodNames : AddMethod(c, n)
    \/ \E n \in MethodNames : CollectName(n)

DispatchSpec == DispatchInit /\ [][DispatchNext]_dispatchVars

-----------------------------------------------------------------------------
(* The counter has passed ATOM_UNDEF, which is an atom of no use but does  *)
(* no harm, and hands out atoms again.                                     *)
Exhausted == given > AtomCount

(* While atoms last, no two names share one: in the machine's table, in    *)
(* the string objects, and in what controllers remember (UserAtom and the  *)
(* patching at the end of Namecall), also when a string was collected and  *)
(* its name has got another atom since.                                    *)
AtomsIdentify ==
    ~Exhausted =>
      /\ \A n \in MethodNames : \A a \in atoms[n] : owner[a] = n
      /\ \A n \in MethodNames : cached[n] # ATOM_UNDEF => owner[cached[n]] = n
      /\ \A c \in Controllers, a \in Atoms : fast[c][a] \in {NoName, owner[a]}

(* Until the counter comes round a second time, the atoms handed out are   *)
(* the first ones in the order of the counter, and only those are in use.  *)
HandedOut(a, count) == IF a = ATOM_UNDEF THEN count >= AtomCount ELSE a <= count

AtomsInOrder ==
    ~Exhausted =>
      /\ nextAtom = IF given + 1 < AtomCount THEN given + 1 ELSE given + 1 - AtomCount
      /\ \A n \in MethodNames : \A a \in atoms[n] : HandedOut(a, given)
      /\ \A n \in MethodNames : cached[n] # ATOM_UNDEF => HandedOut(cached[n], given)
      /\ \A c \in Controllers, a \in Atoms : fast[c][a] # NoName => HandedOut(a, given)

(* Controllers remember only what is registered with them.                 *)
FastIsRegistered ==
    \A c \in Controllers, a \in Atoms : fast[c][a] \in methods[c] \union {NoName}

(* The inductive invariant.                                                *)
DInv == DispatchTypeOK /\ AtomsIdentify /\ AtomsInOrder /\ FastIsRegistered

(* Calls through atoms answer as calls by name would, as long as there are *)
(* atoms (see DispatchPromise).                                            *)
Promise == INSTANCE DispatchPromise
    WITH Names <- MethodNames, None <- NoName, exhausted <- Exhausted
CallsByName == Promise!Spec
=============================================================================
