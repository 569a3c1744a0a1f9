------------------------------ MODULE ModelIndexes ------------------------------
(***************************************************************************)
(* Qore values behind the indexes of an item model: createIndex() of a     *)
(* model written in Qore puts the address of a Qore value into a           *)
(* QModelIndex, internalPointer() turns the address back into the value.   *)
(* The private data of the model (QoreSmokePrivateQAbstractItemModelData)  *)
(* holds a reference to every value it was given.                          *)
(***************************************************************************)
EXTENDS Naturals

CONSTANTS Addresses,     \* where Qore values live; a freed one is used again
          MaxValues      \* bound: values ever made

ASSUME IndexesAssumption == MaxValues \in Nat

VARIABLES value,      \* per address: the value that lives there, 0 for none
          values,     \* how many values were made
          inUse,      \* the addresses Qore code has a reference to
          nodeSet,    \* node_set of the model's private data
          leaked,     \* addresses whose reference went with a node_set
          wrapper,    \* private data of the model: none, model, or plain: that of
                      \* a QObject of any other class
          indexes,    \* the QModelIndex values: [ptr, val : the value they were made for]
          found,      \* what the last internalPointer() gave, for which value
          modelFault

modelVars == <<value, values, inUse, nodeSet, leaked, wrapper, indexes, found, modelFault>>

NoValue == 0
Nothing == [val |-> NoValue, got |-> NoValue]
Referenced == inUse \cup nodeSet \cup leaked
Runs == modelFault = "none"

ModelInit ==
    /\ value = [n \in Addresses |-> NoValue] /\ values = 0
    /\ inUse = {} /\ nodeSet = {} /\ leaked = {} /\ indexes = {}
    /\ wrapper = "model" /\ found = Nothing /\ modelFault = "none"

NewValue(n) ==
    /\ Runs /\ n \notin Referenced /\ values < MaxValues
    /\ values' = values + 1
    /\ value' = [value EXCEPT ![n] = values + 1]
    /\ inUse' = inUse \cup {n}
    /\ UNCHANGED <<nodeSet, leaked, wrapper, indexes, found, modelFault>>

\* storeIndex() takes a reference for the set;  the last reference frees the value
NoReferences == {}
SetReferences == nodeSet
DropValue(n) ==
    /\ Runs /\ n \in inUse
    /\ inUse' = inUse \ {n}
    /\ value' = IF n \in SetReferences \cup leaked THEN value ELSE [value EXCEPT ![n] = NoValue]
    /\ UNCHANGED <<values, nodeSet, leaked, wrapper, indexes, found, modelFault>>

\* createIndex_handler() and storeIndex(): the value is referenced once
StoreIndex(n) == nodeSet' = nodeSet \cup {n}
CreateIndex(n) ==
    /\ Runs /\ wrapper = "model" /\ n \in inUse
    /\ StoreIndex(n)
    /\ indexes' = indexes \cup {[ptr |-> n, val |-> value[n]]}
    /\ UNCHANGED <<value, values, inUse, leaked, wrapper, found, modelFault>>

\* rv_handler_internalPointer() of an index whose model still exists, and isQoreData()
InternalPointer(x) ==
    /\ Runs /\ x \in indexes
    /\ CASE wrapper = "none" ->
              found' = [val |-> x.val, got |-> NoValue] /\ UNCHANGED <<inUse, modelFault>>
         [] wrapper = "model" ->
              /\ found' = [val |-> x.val,
                           got |-> IF x.ptr \in nodeSet THEN value[x.ptr] ELSE NoValue]
              /\ inUse' = IF x.ptr \in nodeSet THEN inUse \cup {x.ptr} ELSE inUse
              /\ UNCHANGED modelFault
         [] wrapper = "plain" -> modelFault' = "cast" /\ UNCHANGED <<found, inUse>>
    /\ UNCHANGED <<value, values, nodeSet, leaked, wrapper, indexes>>

\* The Qore object of a model that Qt keeps is deleted: the destructor of the private data
\* says that it dereferences the stored values, and does nothing.
GiveBack == /\ value' = [n \in Addresses |-> IF n \in nodeSet \ inUse THEN NoValue ELSE value[n]]
            /\ UNCHANGED leaked
KeepForever == leaked' = leaked \cup nodeSet /\ UNCHANGED value
WrapperDeleted ==
    /\ Runs /\ wrapper # "none"
    /\ KeepForever
    /\ nodeSet' = {} /\ wrapper' = "none"
    /\ UNCHANGED <<values, inUse, indexes, found, modelFault>>

\* Qt hands the model back to Qore: the declared class of the value decides which private
\* data the new wrapper gets (Marshalling::stackToQore())
WrapperMade(kind) ==
    /\ Runs /\ wrapper = "none"
    /\ wrapper' = kind
    /\ UNCHANGED <<value, values, inUse, nodeSet, leaked, indexes, found, modelFault>>

\* reset() of a view written in Qore: the handler takes the private data of the view, which
\* is no model, for that of a model and purges a set that is not there
ViewReset ==
    /\ Runs
    /\ modelFault' = "cast"
    /\ UNCHANGED <<value, values, inUse, nodeSet, leaked, wrapper, indexes, found>>

IndexGone(x) ==
    /\ Runs /\ x \in indexes
    /\ indexes' = indexes \ {x}
    /\ UNCHANGED <<value, values, inUse, nodeSet, leaked, wrapper, found, modelFault>>

ModelNext ==
    \/ \E n \in Addresses : NewValue(n) \/ DropValue(n) \/ CreateIndex(n)
    \/ \E x \in indexes : InternalPointer(x) \/ IndexGone(x)
    \/ WrapperDeleted \/ (\E k \in {"model", "plain"} : WrapperMade(k)) \/ ViewReset

ModelSpec == ModelInit /\ [][ModelNext]_modelVars

-----------------------------------------------------------------------------
\* Types of the state (QoreSmokePrivateQAbstractItemModelData).
ModelTypeOK ==
    /\ values \in 0..MaxValues /\ value \in [Addresses -> 0..MaxValues]
    /\ inUse \subseteq Addresses /\ nodeSet \subseteq Addresses /\ leaked \subseteq Addresses
    /\ wrapper \in {"none", "model", "plain"}
    /\ indexes \subseteq [ptr : Addresses, val : 1..MaxValues]
    /\ found \in [val : 0..MaxValues, got : 0..MaxValues]
    /\ modelFault \in {"none", "cast"}

\* internalPointer() gives the value the index was made for or nothing: never the value
\* that came to live at the same address afterwards, whatever index Qt still has.
PointerFaithful == found.got \in {NoValue, found.val}

\* No reference is held to a freed value: what an index or the set of the model may hand to
\* Qore is alive, also after the model's wrapper was replaced.
KeptAlive == \A n \in Addresses : n \in Referenced <=> value[n] # NoValue
=============================================================================
