---------------------------- MODULE ModbusProofs ----------------------------
(***************************************************************************)
(* The Modbus adapter: its streams and their polling thread, for           *)
(* configurations of any length and any devices; and what a stream that    *)
(* was accepted reads and writes, for elements and fields of any size and  *)
(* bytes of any width.                                                     *)
(***************************************************************************)
EXTENDS ModbusStreams, ModbusConfiguration, WellFoundedInduction, TLAPS

-----------------------------------------------------------------------------
(* ModbusSampleIsWhole and ModbusOwnDevice.  Both rest on who may be in a  *)
(* pass: the mutex of the cache lets the polling thread or the session     *)
(* into one, never both and neither while the reader is destroyed.  The    *)
(* cache is then at the end of a pass whenever the mutex is free, and,     *)
(* without a writer, nobody selects another slave between a selection and  *)
(* its transfer.                                                           *)

Calls == {"none", "get", "set", "transfer", "done"}
Busy(a) == mb_at[a][2] \in {"get", "set", "transfer"}

ModbusTypeOK ==
    /\ mb_setup \in ModbusSetups
    /\ mb_reader \in {"none", "ready", "destroying", "terminated"}
    /\ mb_mutex \in {"free", "poller", "session", "destructor"}
    /\ poller_pc \in {"none", "check", "lock", "pass", "ended"}
    /\ session_at \in {"idle", "pass", "copy", "loaned"}
    /\ mb_at \in [ModbusActors -> Nat \X Calls]
    /\ \A a \in ModbusActors :
           /\ Busy(a) => mb_at[a][1] \in 1 .. Len(Elements(a))
           /\ ~Busy(a) => mb_at[a][1] = 0

\* The mutex is held by whoever is in a pass or destroys the reader.
MutexIsHeld ==
    /\ mb_mutex = "poller" <=> poller_pc = "pass"
    /\ mb_mutex = "session" <=> session_at = "pass"
    /\ mb_mutex = "destructor" <=> mb_reader = "destroying"

\* A thread that is not in a pass is at no element.
PassesAreHeld ==
    /\ poller_pc # "pass" => mb_at["poller"] = <<0, "none">>
    /\ session_at # "pass" => mb_at["session"] = <<0, "none">>
    /\ poller_pc = "pass" => mb_at["poller"][2] # "none"
    /\ session_at = "pass" => mb_at["session"][2] # "none"

\* Sessions are only under way on a reader that is ready.  Either the polling
\* thread makes the passes or the session does.
SessionHasReader ==
    /\ session_at # "idle" => mb_reader \in {"ready", "terminated"}
    /\ mb_reader = "none" => poller_pc = "none"
    /\ session_at = "pass" => ~mb_setup.polling
    /\ poller_pc # "none" => mb_setup.polling

\* At the end of a pass the cache has all elements.  So it has while nobody is
\* in one, except after a pass of the session that an exception ended: then
\* there is no copy before the next pass.
CacheIsWhole ==
    /\ /\ mb_reader = "ready" /\ mb_mutex = "free"
       /\ mb_setup.polling \/ session_at = "copy"
       => mb_cached \in {Unread, Len(mb_setup.reader)}
    /\ \A a \in {"poller", "session"} :
           mb_at[a] = <<0, "done">> => mb_cached = Len(mb_setup.reader)

MutexInv ==
    /\ ModbusTypeOK /\ MutexIsHeld /\ PassesAreHeld /\ SessionHasReader
    /\ CacheIsWhole /\ ModbusSampleIsWhole

-----------------------------------------------------------------------------
\* Initially nothing is under way.
LEMMA ModbusInitially == ModbusInit => MutexInv
BY ModbusAssumption
   DEF ModbusInit, MutexInv, ModbusTypeOK, MutexIsHeld, PassesAreHeld,
       SessionHasReader, CacheIsWhole, ModbusSampleIsWhole, Busy, Calls,
       ModbusActors, Unread

\* What a step of a pass does to the place of its actor and to the cache.
LEMMA PassStep ==
    ASSUME MutexInv, NEW a \in ModbusActors, Pass(a)
    PROVE  /\ Busy(a) /\ ModbusTypeOK'
           /\ mb_at' = [mb_at EXCEPT ![a] = mb_at'[a]]
           /\ mb_at'[a][2] # "none"
           /\ a = "writer" => mb_cached' = mb_cached
           /\ a # "writer" /\ mb_at'[a] = <<0, "done">> =>
                  mb_cached' = Len(mb_setup.reader)
<1>. DEFINE i == mb_at[a][1]
<1>1. /\ Busy(a)
      /\ \/ NextElement(a, i) /\ MarkCached(a, i)
         \/ AtElement(a, i, "set") /\ UNCHANGED mb_cached
         \/ AtElement(a, i, "transfer") /\ UNCHANGED mb_cached
  BY Zenon DEF Pass, GetSlave, SetSlave, Transfer, Busy
<1>2. i \in 1 .. Len(Elements(a)) /\ Len(Elements(a)) \in Nat
  BY Zenon, <1>1, ModbusAssumption DEF MutexInv, ModbusTypeOK, Elements
<1>3. UNCHANGED <<mb_setup, mb_mutex, mb_reader, poller_pc, session_at>>
  BY Zenon DEF Pass
<1>4. \A b \in ModbusActors : Elements(b)' = Elements(b)
  BY Zenon, <1>3 DEF Elements
<1>5. CASE NextElement(a, i) /\ MarkCached(a, i) /\ i < Len(Elements(a))
  <2>1. mb_at' = [mb_at EXCEPT ![a] = <<i + 1, "get">>]
    BY Zenon, <1>5 DEF NextElement, AtElement
  <2>2. i + 1 \in 1 .. Len(Elements(a))
    BY <1>2, <1>5
  <2>3. mb_at'[a] = <<i + 1, "get">>
    BY Zenon, <2>1 DEF MutexInv, ModbusTypeOK
  <2>. QED
    BY <1>1, <1>2, <1>3, <1>4, <1>5, <2>1, <2>2, <2>3
       DEF MutexInv, ModbusTypeOK, Busy, Calls, MarkCached
<1>6. CASE NextElement(a, i) /\ MarkCached(a, i) /\ i = Len(Elements(a))
  <2>1. mb_at' = [mb_at EXCEPT ![a] = <<0, "done">>]
    BY <1>2, <1>6 DEF NextElement, AtElement
  <2>2. mb_at'[a] = <<0, "done">>
    BY Zenon, <2>1 DEF MutexInv, ModbusTypeOK
  <2>. QED
    BY <1>1, <1>2, <1>3, <1>4, <1>6, <2>1, <2>2
       DEF MutexInv, ModbusTypeOK, Busy, Calls, MarkCached, Elements
<1>7. ASSUME NEW call \in {"set", "transfer"},
             AtElement(a, i, call), UNCHANGED mb_cached
      PROVE  /\ ModbusTypeOK'
             /\ mb_at' = [mb_at EXCEPT ![a] = mb_at'[a]]
             /\ mb_at'[a][2] # "none" /\ mb_at'[a] # <<0, "done">>
  <2>1. mb_at' = [mb_at EXCEPT ![a] = <<i, call>>]
    BY Zenon, <1>7 DEF AtElement
  <2>2. mb_at'[a] = <<i, call>>
    BY Zenon, <2>1 DEF MutexInv, ModbusTypeOK
  <2>. QED
    BY <1>2, <1>3, <1>4, <2>1, <2>2 DEF MutexInv, ModbusTypeOK, Busy, Calls
<1>. QED
  BY <1>1, <1>2, <1>5, <1>6, <1>7

\* A pass keeps the invariant: its actor holds the mutex, or is the writer.
LEMMA PassKeeps == ASSUME MutexInv, NEW a \in ModbusActors, Pass(a) PROVE MutexInv'
<1>1. /\ Busy(a) /\ ModbusTypeOK'
      /\ mb_at' = [mb_at EXCEPT ![a] = mb_at'[a]]
      /\ mb_at'[a][2] # "none"
      /\ a = "writer" => mb_cached' = mb_cached
      /\ a # "writer" /\ mb_at'[a] = <<0, "done">> =>
             mb_cached' = Len(mb_setup.reader)
  BY Zenon, PassStep
<1>2. UNCHANGED <<mb_setup, mb_mutex, mb_reader, poller_pc, session_at, mb_sample>>
  BY Zenon DEF Pass
<1>3. mb_at \in [ModbusActors -> Nat \X Calls]
  BY Zenon DEF MutexInv, ModbusTypeOK
<1>4. \A b \in ModbusActors \ {a} : mb_at'[b] = mb_at[b]
  BY Zenon, <1>1, <1>3
<1>5. a = "poller" => poller_pc = "pass"
  BY <1>1 DEF MutexInv, PassesAreHeld, Busy
<1>6. a = "session" => session_at = "pass"
  BY <1>1 DEF MutexInv, PassesAreHeld, Busy
<1>7. MutexIsHeld' /\ SessionHasReader' /\ ModbusSampleIsWhole'
  BY Zenon, <1>2 DEF MutexInv, MutexIsHeld, SessionHasReader, ModbusSampleIsWhole
<1>8. PassesAreHeld'
  BY Zenon, <1>1, <1>2, <1>4, <1>5, <1>6 DEF MutexInv, PassesAreHeld, ModbusActors
<1>9. CacheIsWhole'
  <2>1. CASE a = "writer"
    BY Zenon, <1>1, <1>2, <1>4, <2>1 DEF MutexInv, CacheIsWhole, ModbusActors
  <2>2. CASE a # "writer"
    <3>1. mb_mutex # "free"
      BY Zenon, <1>5, <1>6, <2>2 DEF MutexInv, MutexIsHeld, ModbusActors
    <3>2. \A b \in {"poller", "session"} \ {a} : mb_at[b] = <<0, "none">>
      BY SMTT(30), <1>5, <1>6, <2>2 DEF MutexInv, MutexIsHeld, PassesAreHeld, ModbusActors
    <3>. QED BY <1>1, <1>2, <1>4, <2>2, <3>1, <3>2 DEF CacheIsWhole, ModbusActors
  <2>. QED BY Zenon, <2>1, <2>2
<1>. QED BY Zenon, <1>1, <1>7, <1>8, <1>9 DEF MutexInv

\* What an exception does: the writer's and the session's passes end, and the
\* poller's ends the process.
LEMMA ThrowStep ==
    ASSUME NEW a \in ModbusActors, PassThrows(a)
    PROVE  /\ UNCHANGED <<mb_setup, mb_slave, mb_cached, poller_pc, mb_sample>>
           /\ \/ /\ a = "poller" /\ mb_reader' = "terminated"
                 /\ UNCHANGED <<mb_at, mb_mutex, session_at>>
              \/ /\ a = "session" /\ mb_at' = [mb_at EXCEPT !["session"] = <<0, "none">>]
                 /\ mb_mutex' = "free" /\ session_at' = "idle" /\ UNCHANGED mb_reader
              \/ /\ a = "writer" /\ mb_at' = [mb_at EXCEPT !["writer"] = <<0, "none">>]
                 /\ UNCHANGED <<mb_mutex, mb_reader, session_at>>
BY Zenon DEF PassThrows, AtElement

\* An exception keeps the invariant.
LEMMA ThrowKeeps ==
    ASSUME MutexInv, NEW a \in ModbusActors, PassThrows(a) PROVE MutexInv'
<1>1. Busy(a)
  BY Zenon DEF PassThrows, Busy
<1>2. /\ a = "poller" => poller_pc = "pass"
      /\ a = "session" => session_at = "pass"
  BY <1>1 DEF MutexInv, PassesAreHeld, Busy
<1>3. \A b \in ModbusActors : Elements(b)' = Elements(b)
  BY Zenon, ThrowStep DEF Elements
<1>. USE ThrowStep, <1>2, <1>3
     DEF MutexInv, MutexIsHeld, PassesAreHeld, SessionHasReader, CacheIsWhole,
         ModbusSampleIsWhole, ModbusTypeOK, Busy, Calls, ModbusActors
<1>4. CASE a = "poller"
  BY SMTT(30), <1>4
<1>5. CASE a = "session"
  BY SMTT(30), <1>5
<1>6. CASE a = "writer"
  BY SMTT(30), <1>6
<1>. QED BY Zenon, <1>4, <1>5, <1>6

\* The other steps keep it: each moves at most one actor into or out of a
\* pass, together with the mutex.
LEMMA OthersKeep ==
    ASSUME MutexInv, Running,
           \/ ReaderConstructor \/ ReaderDestructor \/ JoinThreads
           \/ PollerCheck \/ PollerLock \/ PollerUnlock \/ Notifier
           \/ ModbusRead \/ SessionUnlock \/ CopyCached \/ ModbusReturnLoan
           \/ ModbusWrite \/ ModbusWriteEnds
    PROVE  MutexInv'
<1>. USE DEF MutexInv, MutexIsHeld, PassesAreHeld, SessionHasReader, CacheIsWhole,
             ModbusSampleIsWhole
<1>1. mb_setup' = mb_setup /\ mb_setup \in ModbusSetups
  BY Zenon DEF ModbusTypeOK, ReaderConstructor, ReaderDestructor, JoinThreads,
         PollerCheck, PollerLock, PollerUnlock, Notifier, ModbusRead,
         SessionUnlock, CopyCached, ModbusReturnLoan, ModbusWrite, ModbusWriteEnds
<1>2. /\ Len(mb_setup.reader) \in Nat \ {0} /\ Len(mb_setup.writer) \in Nat
      /\ mb_setup.writer # <<>> => Len(mb_setup.writer) > 0
  BY Zenon, <1>1, ModbusAssumption
<1>3. \A a \in ModbusActors : Elements(a)' = Elements(a)
  BY Zenon, <1>1 DEF Elements
<1>. USE <1>1, <1>2, <1>3
     DEF ModbusTypeOK, Busy, Calls, ModbusActors, AtElement, Idle, Unread
<1>4. CASE ReaderConstructor
  BY <1>4 DEF ReaderConstructor
<1>5. CASE ReaderDestructor
  BY SMTT(30), <1>5 DEF ReaderDestructor
<1>6. CASE JoinThreads
  BY Zenon, <1>6 DEF JoinThreads
<1>7. CASE PollerCheck \/ Notifier \/ CopyCached \/ ModbusReturnLoan
  <2>1. CASE PollerCheck
    BY SMTT(30), <2>1 DEF PollerCheck
  <2>2. CASE Notifier
    BY Zenon, <2>2 DEF Notifier
  <2>3. CASE CopyCached
    BY SMTT(30), <2>3 DEF CopyCached, Running
  <2>4. CASE ModbusReturnLoan
    BY SMTT(30), <2>4 DEF ModbusReturnLoan
  <2>. QED BY Zenon, <1>7, <2>1, <2>2, <2>3, <2>4
<1>8. CASE PollerLock
  BY SMTT(30), <1>8 DEF PollerLock, Elements
<1>9. CASE PollerUnlock
  BY Zenon, <1>9 DEF PollerUnlock
<1>10. CASE ModbusRead
  BY SMTT(30), <1>10 DEF ModbusRead, Elements
<1>11. CASE SessionUnlock
  BY Zenon, <1>11 DEF SessionUnlock
<1>12. CASE ModbusWrite
  BY SMTT(30), <1>12 DEF ModbusWrite, Elements
<1>13. CASE ModbusWriteEnds
  BY <1>13 DEF ModbusWriteEnds
<1>. QED BY Zenon, <1>4, <1>5, <1>6, <1>7, <1>8, <1>9, <1>10, <1>11, <1>12, <1>13

\* The mutex keeps the passes apart in every behaviour of the streams.
THEOREM MutexInvHolds == ModbusSpec => []MutexInv
<1>1. MutexInv /\ [ModbusNext]_mbvars => MutexInv'
  <2>. SUFFICES ASSUME MutexInv, [ModbusNext]_mbvars PROVE MutexInv'
    BY Zenon
  <2>1. CASE ModbusNext
    BY Zenon, <2>1, PassKeeps, ThrowKeeps, OthersKeep DEF ModbusNext
  <2>2. CASE UNCHANGED mbvars
    BY Zenon, <2>2 DEF mbvars, MutexInv, ModbusTypeOK, MutexIsHeld, PassesAreHeld,
                SessionHasReader, CacheIsWhole, ModbusSampleIsWhole, Busy, Elements
  <2>. QED BY Zenon, <2>1, <2>2
<1>. QED BY <1>1, ModbusInitially, PTL DEF ModbusSpec

\* A sample is copied from a cache that exists and between two passes, for any
\* configuration (ModbusStreamReader.cxx:100-133, 326-364).
THEOREM SampleIsWhole == ModbusSpec => []ModbusSampleIsWhole
<1>1. MutexInv => ModbusSampleIsWhole
  BY Zenon DEF MutexInv
<1>. QED BY <1>1, MutexInvHolds, PTL

-----------------------------------------------------------------------------
Device(a) == Elements(a)[mb_at[a][1]]

\* Between a selection and its transfer the slave stays the element's.
SlaveInv ==
    /\ mb_setup.writer = <<>> => mb_at["writer"] = <<0, "none">>
    /\ \A a \in ModbusActors :
           mb_at[a][2] \in {"set", "transfer"} => Device(a) # Constant
    /\ UndisturbedSlave(mb_setup) =>
           /\ \A a \in ModbusActors : mb_at[a][2] = "transfer" => Device(a) = mb_slave
           /\ mb_transfer.meant = mb_transfer.asked

\* Two actors that are at elements of an undisturbed setup are at the same
\* device: without a writer they would both hold the mutex.
LEMMA OneDevice ==
    ASSUME MutexInv, SlaveInv, UndisturbedSlave(mb_setup),
           NEW a \in ModbusActors, NEW b \in ModbusActors, a # b,
           mb_at[a][2] \in {"set", "transfer"}, mb_at[b][2] \in {"set", "transfer"}
    PROVE  Device(a) = Device(b)
<1>1. \A c \in {a, b} : /\ Busy(c) /\ mb_at[c][1] \in 1 .. Len(Elements(c))
                       /\ Device(c) # Constant
  BY Zenon DEF MutexInv, ModbusTypeOK, Busy, SlaveInv
<1>2. mb_setup.writer # <<>>
  <2>. SUFFICES ASSUME mb_setup.writer = <<>> PROVE FALSE
    BY Zenon
  <2>1. a # "writer" /\ b # "writer"
    BY SMTT(30) DEF SlaveInv
  <2>. QED
    BY <1>1, <2>1 DEF ModbusActors, MutexInv, PassesAreHeld, MutexIsHeld, Busy
<1>3. \A c \in {a, b} :
         Device(c) \in DevicesOf(mb_setup.reader) \cup DevicesOf(mb_setup.writer)
  BY Zenon, <1>1 DEF Device, Elements, DevicesOf
<1>. QED BY Zenon, <1>2, <1>3 DEF UndisturbedSlave

\* A pass keeps the slave between a selection and its transfer.
LEMMA PassKeepsSlave ==
    ASSUME MutexInv, SlaveInv, NEW a \in ModbusActors, Pass(a) PROVE SlaveInv'
<1>1. /\ Busy(a)
      /\ mb_at' = [mb_at EXCEPT ![a] = mb_at'[a]]
      /\ mb_at \in [ModbusActors -> Nat \X Calls]
  BY Zenon, PassStep DEF MutexInv, ModbusTypeOK
<1>2. mb_setup' = mb_setup
  BY Zenon DEF Pass
<1>3. \A b \in ModbusActors \ {a} : mb_at'[b] = mb_at[b] /\ Device(b)' = Device(b)
  BY Zenon, <1>1, <1>2 DEF Device, Elements
<1>4. mb_setup'.writer = <<>> => mb_at'["writer"] = <<0, "none">>
  BY SMTT(30), <1>1, <1>2, <1>3 DEF SlaveInv, Busy, ModbusActors
<1>. DEFINE i == mb_at[a][1]
<1>5. CASE GetSlave(a)
  <2>1. \/ mb_at'[a][2] \in {"get", "done"}
        \/ /\ mb_at'[a] = <<i, IF mb_slave = Device(a) THEN "transfer" ELSE "set">>
           /\ Device(a) # Constant /\ Device(a)' = Device(a)
    BY SMTT(30), <1>1, <1>2, <1>5 DEF GetSlave, NextElement, AtElement, Device, Elements
  <2>. QED BY SMTT(30), <1>2, <1>3, <1>4, <1>5, <2>1 DEF SlaveInv, GetSlave
<1>6. CASE SetSlave(a)
  <2>1. \/ mb_at'[a][2] \in {"get", "done"} /\ mb_slave' = mb_slave
        \/ /\ mb_at'[a] = <<i, "transfer">> /\ mb_slave' = Device(a)
           /\ Device(a)' = Device(a)
    BY <1>1, <1>2, <1>6 DEF SetSlave, NextElement, AtElement, Device, Elements
  <2>2. mb_at[a][2] = "set" /\ UNCHANGED mb_transfer
    BY Zenon, <1>6 DEF SetSlave
  <2>3. UndisturbedSlave(mb_setup) =>
            \A b \in ModbusActors \ {a} :
                mb_at[b][2] = "transfer" => Device(b) = Device(a)
    BY Zenon, <2>2, OneDevice
  <2>. QED BY Zenon, <1>2, <1>3, <1>4, <2>1, <2>2, <2>3 DEF SlaveInv
<1>7. CASE Transfer(a)
  <2>1. mb_at'[a][2] \in {"get", "done"} /\ mb_slave' = mb_slave
    BY <1>1, <1>7 DEF Transfer, NextElement, AtElement
  <2>2. /\ mb_at[a][2] = "transfer"
        /\ \/ mb_transfer' = [meant |-> Device(a), asked |-> mb_slave]
           \/ UNCHANGED mb_transfer
    BY Zenon, <1>7 DEF Transfer, Device
  <2>3. UndisturbedSlave(mb_setup) => mb_transfer'.meant = mb_transfer'.asked
    <3>1. CASE mb_transfer' = [meant |-> Device(a), asked |-> mb_slave]
      BY Zenon, <2>2, <3>1 DEF SlaveInv
    <3>2. CASE UNCHANGED mb_transfer
      BY Zenon, <3>2 DEF SlaveInv
    <3>. QED BY Zenon, <2>2, <3>1, <3>2
  <2>. QED BY Zenon, <1>2, <1>3, <1>4, <2>1, <2>3 DEF SlaveInv
<1>. QED BY Zenon, <1>5, <1>6, <1>7 DEF Pass

\* An exception comes before the transfer or after one that was made.
LEMMA ThrowKeepsSlave ==
    ASSUME MutexInv, SlaveInv, NEW a \in ModbusActors, PassThrows(a) PROVE SlaveInv'
<1>1. \/ UNCHANGED mb_transfer
      \/ /\ mb_at[a][2] = "transfer"
         /\ mb_transfer' = [meant |-> Device(a), asked |-> mb_slave]
  BY Zenon DEF PassThrows, Device
<1>2. UNCHANGED <<mb_setup, mb_slave>>
      /\ \/ UNCHANGED mb_at
         \/ mb_at' = [mb_at EXCEPT ![a] = <<0, "none">>]
  BY Zenon, ThrowStep
<1>3. mb_at \in [ModbusActors -> Nat \X Calls]
  BY Zenon DEF MutexInv, ModbusTypeOK
<1>4. UndisturbedSlave(mb_setup) => mb_transfer'.meant = mb_transfer'.asked
  BY <1>1 DEF SlaveInv
<1>5. CASE UNCHANGED mb_at
  BY Zenon, <1>2, <1>4, <1>5 DEF SlaveInv, Device, Elements
<1>6. CASE mb_at' = [mb_at EXCEPT ![a] = <<0, "none">>]
  <2>1. \A b \in ModbusActors \ {a} :
            mb_at'[b] = mb_at[b] /\ Device(b)' = Device(b)
    BY Zenon, <1>2, <1>3, <1>6 DEF Device, Elements
  <2>2. mb_at'[a] = <<0, "none">> /\ mb_at'[a][2] = "none"
    BY Zenon, <1>3, <1>6
  <2>. QED BY Zenon, <1>2, <1>4, <2>1, <2>2 DEF SlaveInv, ModbusActors
<1>. QED BY Zenon, <1>2, <1>5, <1>6

\* The other steps only move an actor to the first element or to none.
LEMMA OthersKeepSlave ==
    ASSUME MutexInv, SlaveInv,
           \/ ReaderConstructor \/ ReaderDestructor \/ JoinThreads
           \/ PollerCheck \/ PollerLock \/ PollerUnlock \/ Notifier
           \/ ModbusRead \/ SessionUnlock \/ CopyCached \/ ModbusReturnLoan
           \/ ModbusWrite \/ ModbusWriteEnds
    PROVE  SlaveInv'
<1>1. UNCHANGED <<mb_setup, mb_slave, mb_transfer>>
  BY Zenon DEF ReaderConstructor, ReaderDestructor, JoinThreads, PollerCheck,
         PollerLock, PollerUnlock, Notifier, ModbusRead, SessionUnlock,
         CopyCached, ModbusReturnLoan, ModbusWrite, ModbusWriteEnds
<1>2. mb_at \in [ModbusActors -> Nat \X Calls]
  BY Zenon DEF MutexInv, ModbusTypeOK
<1>3. \/ UNCHANGED mb_at
      \/ \E a \in ModbusActors :
             /\ \/ mb_at' = [mb_at EXCEPT ![a] = <<1, "get">>]
                \/ mb_at' = [mb_at EXCEPT ![a] = <<0, "none">>]
             /\ a = "writer" => mb_setup.writer # <<>> \/ mb_at'[a] = <<0, "none">>
  BY Zenon, <1>2 DEF ReaderConstructor, ReaderDestructor, JoinThreads, PollerCheck,
         PollerLock, PollerUnlock, Notifier, ModbusRead, SessionUnlock,
         CopyCached, ModbusReturnLoan, ModbusWrite, ModbusWriteEnds, AtElement,
         ModbusActors
<1>4. CASE UNCHANGED mb_at
  BY Zenon, <1>1, <1>4 DEF SlaveInv, Device, Elements
<1>5. ASSUME NEW a \in ModbusActors,
             \/ mb_at' = [mb_at EXCEPT ![a] = <<1, "get">>]
             \/ mb_at' = [mb_at EXCEPT ![a] = <<0, "none">>],
             a = "writer" => mb_setup.writer # <<>> \/ mb_at'[a] = <<0, "none">>
      PROVE  SlaveInv'
  <2>1. \A b \in ModbusActors \ {a} :
            mb_at'[b] = mb_at[b] /\ Device(b)' = Device(b)
    BY Zenon, <1>1, <1>2, <1>5 DEF Device, Elements
  <2>2. mb_at'[a][2] \in {"get", "none"}
    BY <1>2, <1>5
  <2>. QED BY Zenon, <1>1, <1>5, <2>1, <2>2 DEF SlaveInv, ModbusActors
<1>. QED BY Zenon, <1>3, <1>4, <1>5

\* Registers and coils are read from and written to the device their element
\* names, for any configuration of devices in which no other stream selects
\* another one (LibModbusClient.cxx:71-212, ModbusStreamReader.cxx:115-133).
THEOREM OwnDevice == ModbusSpec => []ModbusOwnDevice
<1>1. ModbusInit => SlaveInv
  BY DEF ModbusInit, SlaveInv, NoTransfer, ModbusActors
<1>2. MutexInv /\ SlaveInv /\ [ModbusNext]_mbvars => SlaveInv'
  <2>. SUFFICES ASSUME MutexInv, SlaveInv, [ModbusNext]_mbvars PROVE SlaveInv'
    BY Zenon
  <2>1. CASE ModbusNext
    BY Zenon, <2>1, PassKeepsSlave, ThrowKeepsSlave, OthersKeepSlave DEF ModbusNext
  <2>2. CASE UNCHANGED mbvars
    BY Zenon, <2>2 DEF mbvars, SlaveInv, Device, Elements
  <2>. QED BY Zenon, <2>1, <2>2
<1>3. SlaveInv => ModbusOwnDevice
  BY Zenon DEF SlaveInv, ModbusOwnDevice
<1>. QED BY <1>1, <1>2, <1>3, MutexInvHolds, PTL DEF ModbusSpec

-----------------------------------------------------------------------------
(* Induction.                                                              *)

\* A set of natural numbers that has an element has a least one.
LEMMA LeastNumber ==
    ASSUME NEW T, T \subseteq Nat, T # {}
    PROVE  \E x \in T : \A y \in T : x <= y
<1>. DEFINE R == {ss \in Nat \X Nat : ss[1] < ss[2]}
<1>1. IsWellFoundedOn(R, Nat)
  BY Zenon, NatLessThanWellFounded DEF OpToRel
<1>. HIDE DEF R
<1>2. PICK x \in T : \A y \in T : ~(<<y, x>> \in R)
  BY Zenon, <1>1, WFMin
<1>3. \A y \in T : ~(y < x)
  BY Zenon, <1>2 DEF R
<1>. QED BY <1>3

-----------------------------------------------------------------------------
(* ModbusValueFitsField.  What makes it inductive: a stream that is ready  *)
(* keeps the element it was accepted with, so that what the constructor    *)
(* checked still holds when registers are read.                            *)

\* mc_use was parsed and checked, and nothing was wrong with it.
Accepted ==
    /\ ~check_for_errors(mc_use.element) /\ ~CountIsWrong(mc_use.element)
    /\ mc_element = Parsed(mc_use.element)
    /\ ~check_configuration_consistency(mc_use.entity, mc_element, mc_use.field)

ModbusInv ==
    /\ mc_use \in ModbusUses
    /\ mc_phase \in {"new", "refused", "ready", "overrun"}
    /\ mc_phase \in {"new", "refused"} => mc_values = <<>>
    /\ mc_phase = "ready" => Accepted

\* Adding the base does not change a remainder.
LEMMA ModShift ==
    ASSUME NEW b \in Nat \ {0}, NEW m \in 0 .. b - 1
    PROVE  m % b = m /\ (m - b) % b = m
  OBVIOUS

\* Casting a second time to the same width changes nothing.
LEMMA CastTwice ==
    ASSUME NEW x \in Int, NEW b \in Nat \ {0}
    PROVE  /\ safe_cast_signed(x, b) \in Int
           /\ safe_cast_signed(safe_cast_signed(x, b), b) = safe_cast_signed(x, b)
  <1> DEFINE m == x % b
  <1>1. m \in 0 .. b - 1
    OBVIOUS
  <1>2. m % b = m /\ (m - b) % b = m
    BY Zenon, <1>1, ModShift
  <1> QED
    BY <1>1, <1>2 DEF safe_cast_signed

\* Every width has a number of values that is positive.
LEMMA BaseIsPositive ==
    ASSUME NEW datatype \in IntegerDatatypes
    PROVE  BaseOf(datatype) \in Nat \ {0}
  <1>1. \A a, b \in Nat \ {0} : a * b \in Nat \ {0}
    OBVIOUS
  <1>2. RegisterBase \in Nat \ {0}
    BY Zenon, <1>1, ModbusUseAssumption DEF RegisterBase
  <1>3. RegisterBase * RegisterBase \in Nat \ {0}
    BY Zenon, <1>1, <1>2
  <1>4. (RegisterBase * RegisterBase) * (RegisterBase * RegisterBase) \in Nat \ {0}
    BY Zenon, <1>1, <1>3
  <1>5. ByteBase \in Nat \ {0}
    BY Zenon, ModbusUseAssumption
  <1> QED
    BY Zenon, <1>2, <1>3, <1>4, <1>5 DEF BaseOf, IntegerDatatypes

\* A datatype has one, two or four registers.
LEMMA RegistersOfAType ==
    ASSUME NEW datatype \in RegisterDatatypes
    PROVE  number_of_registers_primitive_type(datatype) \in {1, 2, 4}
  BY Zenon DEF RegisterDatatypes, IntegerDatatypes, FloatDatatypes, BooleanDatatypes,
         number_of_registers_primitive_type

\* What the constructor accepted for a reader: as many values as the field
\* takes, and for an enumeration only values that are ordinals of it.
LEMMA AcceptedFits ==
    ASSUME ModbusInv, mc_phase = "ready", mc_use.entity = "reader",
           mc_element.datatype # "CONSTANT_VALUE"
    PROVE  /\ mc_element.datatype \in RegisterDatatypes
           /\ mc_element.count \in Nat \ {0}
           /\ ValueCount(mc_element) \in Nat \ {0}
           /\ mc_element.datatype \in BooleanDatatypes =>
                  ValueCount(mc_element) = mc_element.count
           /\ mc_use.field.shape = "single" =>
                 /\ ValueCount(mc_element) = 1
                 /\ mc_element.count =
                        number_of_registers_primitive_type(mc_element.datatype)
           /\ mc_use.field.shape = "array" =>
                  ValueCount(mc_element) = mc_use.field.size
           /\ mc_use.field.shape = "sequence" =>
                  ValueCount(mc_element) > 1 /\ ValueCount(mc_element) <= mc_use.field.size
           /\ mc_use.field.shape = "single" /\ mc_use.field.kind = "enum" =>
                 /\ mc_element.datatype \in IntegerDatatypes
                 /\ mc_element.valid # {}
                 /\ mc_element.valid \subseteq mc_use.field.ordinals
           /\ mc_element.factor \in Int /\ mc_element.offset \in Int
  <1> DEFINE u == mc_use.element
             e == mc_element
             f == mc_use.field
             n == number_of_registers_primitive_type(u.datatype)
  <1>1. Accepted /\ mc_use \in ModbusUses
    BY Zenon DEF ModbusInv
  <1>2. u \in ElementRecords /\ f \in FieldRecords
    BY Zenon, <1>1, ModbusUseAssumption
  <1>3. /\ e.datatype = ParsedDatatype(u) /\ e.count = ParsedCount(u)
        /\ e.valid = u.valid /\ e.factor = u.factor /\ e.offset = u.offset
        /\ e.array_elements = set_array_elements_from_config(u)
    BY Zenon, <1>1 DEF Accepted, Parsed
  <1>4. e.datatype = u.datatype /\ u.datatype \in RegisterDatatypes
    BY Zenon, <1>1, <1>2, <1>3 DEF Accepted, check_for_errors, ParsedDatatype, ElementRecords
  <1>5. n \in {1, 2, 4} /\ u.count \in Nat
    BY Zenon, <1>2, <1>4, RegistersOfAType DEF ElementRecords
  <1>6. u.count = 0 \/ (u.count % n = 0 /\ u.count \div n >= 1)
    BY SMTT(30), <1>1, <1>3, <1>4, <1>5 DEF Accepted, CountIsWrong
  <1>7. /\ e.array_elements = IF u.count = 0 \/ u.count \div n = 1 THEN 0
                              ELSE u.count \div n
        /\ e.count = IF e.array_elements # 0 THEN u.count ELSE n
    <2>1. ParsedDatatype(u) # "CONSTANT_VALUE"
      BY Zenon, <1>3
    <2>2. e.array_elements = IF u.count = 0 \/ u.count \div n = 1 THEN 0
                             ELSE u.count \div n
      BY Zenon, <2>1, <1>3, <1>5 DEF set_array_elements_from_config
    <2> QED
      BY Zenon, <2>1, <2>2, <1>3 DEF ParsedCount
  <1>8. ValueCount(e) = e.count \div n
    BY Zenon, <1>4 DEF ValueCount
  <1>9. /\ e.array_elements # 0 => /\ ValueCount(e) = e.array_elements
                                   /\ ValueCount(e) \in Nat /\ ValueCount(e) > 1
                                   /\ e.count \in Nat \ {0}
        /\ e.array_elements = 0 => ValueCount(e) = 1 /\ e.count = n
    <2> HIDE DEF n, u, e
    <2>1. CASE n = 1
      BY <2>1, <1>5, <1>6, <1>7, <1>8
    <2>2. CASE n = 2
      BY <2>2, <1>5, <1>6, <1>7, <1>8
    <2>3. CASE n = 4
      BY <2>3, <1>5, <1>6, <1>7, <1>8
    <2> QED
      BY Zenon, <2>1, <2>2, <2>3, <1>5
  <1>10. ~check_configuration_consistency("reader", e, f)
    BY Zenon, <1>1 DEF Accepted
  <1>11. f.shape \in {"single", "array", "sequence"} /\ f.size \in Nat
    BY Zenon, <1>2 DEF FieldRecords
  <1>12. /\ f.shape = "single" => e.array_elements = 0
         /\ f.shape \in {"array", "sequence"} => e.array_elements # 0
         /\ f.shape = "array" => f.size = e.array_elements
         /\ f.shape = "sequence" => ~(f.size < e.array_elements)
    BY Zenon, <1>10 DEF check_configuration_consistency
  <1>13. f.shape = "single" /\ f.kind = "enum" =>
             is_compatible_dds_datatype(e, "enum") /\ e.valid \subseteq f.ordinals
    BY Zenon, <1>10, <1>12 DEF check_configuration_consistency
  <1>14. is_compatible_dds_datatype(e, "enum") =>
             e.datatype \in IntegerDatatypes /\ e.valid # {}
    BY Zenon, <1>3 DEF is_compatible_dds_datatype
  <1>15. e.datatype \in BooleanDatatypes => n = 1
    BY Zenon, <1>4 DEF number_of_registers_primitive_type, BooleanDatatypes, FloatDatatypes
  <1>16. u.factor \in Int /\ u.offset \in Int
    BY Zenon, <1>2 DEF ElementRecords
  <1>17. e.datatype \in BooleanDatatypes => ValueCount(e) = e.count
    BY <1>15, <1>8, <1>9, <1>5
  <1> QED
    BY <1>3, <1>4, <1>5, <1>9, <1>11, <1>12, <1>13, <1>14, <1>16, <1>17

\* The values a read gives the field, and the number of them.
LEMMA ReadGives ==
    ASSUME ModbusInv, NEW regs, ReadElement(regs), regs \in RegistersRead
    PROVE  Len(mc_values') = ValueCount(mc_element)
  <1>1. mc_phase = "ready" /\ mc_use.entity = "reader"
        /\ mc_element.datatype # "CONSTANT_VALUE"
    BY Zenon DEF ReadElement
  <1>2. ValueCount(mc_element) \in Nat
    BY Zenon, <1>1, AcceptedFits
  <1>3. CASE mc_element.datatype \in BooleanDatatypes
    <2>1. mc_values' = regs /\ ValueCount(mc_element) = mc_element.count
      BY Zenon, <1>1, <1>3, AcceptedFits DEF ReadElement
    <2> QED
      BY SMTT(30), <2>1, <1>2 DEF RegistersRead
  <1>4. CASE mc_element.datatype \notin BooleanDatatypes
    <2>1. mc_values' = get_float_value(mc_element, mc_use.field.kind, regs)
      BY Zenon, <1>4 DEF ReadElement
    <2> QED
      BY <2>1, <1>2 DEF get_float_value
  <1> QED
    BY Zenon, <1>3, <1>4

\* The registers of the first value are those the element starts with.
LEMMA FirstSlice ==
    ASSUME NEW e, NEW regs, NEW n \in {1, 2, 4},
           n = number_of_registers_primitive_type(e.datatype),
           regs \in [1 .. n -> Registers]
    PROVE  /\ Slice(e, regs, 1) \in Seq(Int)
           /\ \A i \in 1 .. n : Slice(e, regs, 1)[i] \in Int
  <1>1. Registers \subseteq Int
    BY ModbusUseAssumption DEF Registers, RegisterBase
  <1>2. n \in Nat /\ regs \in [1 .. n -> Int]
    <2>1. n \in Nat
      OBVIOUS
    <2>2. \A i \in 1 .. n : regs[i] \in Int
      BY Zenon, <1>1
    <2> QED
      BY Zenon, <2>1, <2>2
  <1>3. regs \in Seq(Int) /\ Len(regs) = n
    BY <1>2
  <1>4. Slice(e, regs, 1) = SubSeq(regs, 1, n)
    BY DEF Slice
  <1> QED
    BY <1>2, <1>3, <1>4

\* What is read for a field with a sign is already a cast to the width of its
\* datatype.
LEMMA RawIsCast ==
    ASSUME NEW e, e.datatype \in IntegerDatatypes, NEW kind, is_signed_kind(kind),
           NEW r, \A i \in 1 .. number_of_registers_primitive_type(e.datatype) : r[i] \in Int
    PROVE  \E x \in Int : RawValue(e, kind, r) = safe_cast_signed(x, BaseOf(e.datatype))
  <1>0. RegisterBase \in Int
    BY ModbusUseAssumption DEF RegisterBase
  <1>1. CASE e.datatype \in {"INT8", "INT16"}
    <2>1. RawValue(e, kind, r) = safe_cast_signed(r[1], BaseOf(e.datatype))
      BY Zenon, <1>1 DEF RawValue, FloatDatatypes
    <2>2. r[1] \in Int
      BY <1>1 DEF number_of_registers_primitive_type, FloatDatatypes, BooleanDatatypes
    <2> QED
      BY Zenon, <2>1, <2>2
  <1>2. CASE e.datatype = "INT32"
    <2>1. RawValue(e, kind, r) = safe_cast_signed(int16_to_int32(r), BaseOf(e.datatype))
      BY Zenon, <1>2 DEF RawValue, FloatDatatypes
    <2>2. r[1] \in Int /\ r[2] \in Int
      BY <1>2 DEF number_of_registers_primitive_type, FloatDatatypes, BooleanDatatypes
    <2>3. int16_to_int32(r) \in Int
      BY <2>2, <1>0 DEF int16_to_int32
    <2> QED
      BY Zenon, <2>1, <2>3
  <1>3. CASE e.datatype = "INT64"
    <2>1. RawValue(e, kind, r) = safe_cast_signed(int16_to_int64(r), BaseOf(e.datatype))
      BY Zenon, <1>3 DEF RawValue, FloatDatatypes
    <2>2. r[1] \in Int /\ r[2] \in Int /\ r[3] \in Int /\ r[4] \in Int
      BY <1>3 DEF number_of_registers_primitive_type, FloatDatatypes, BooleanDatatypes
    <2>3. int16_to_int64(r) \in Int
      BY <2>2, <1>0 DEF int16_to_int64
    <2> QED
      BY <2>1, <2>3
  <1> QED
    BY Zenon, <1>1, <1>2, <1>3 DEF IntegerDatatypes

\* Numbers in the exact range of the arithmetic are transformed exactly.
LEMMA LinearIsExact ==
    ASSUME NEW e, e.factor \in Int, e.offset \in Int, NEW v \in Int,
           NEW exact \in Nat, e.datatype \notin FloatDatatypes,
           \A x \in {v, v * e.factor, Linear(e, v)} : -exact <= x /\ x <= exact
    PROVE  LinearTransformation(e, v, exact) = Linear(e, v)
  <1>1. ASSUME NEW x, -exact <= x /\ x <= exact PROVE Rounded(x, exact) = x
    BY Zenon, <1>1 DEF Rounded
  <1>2. Rounded(v, exact) = v /\ Rounded(v * e.factor, exact) = v * e.factor
    BY Zenon, <1>1
  <1>3. Rounded(e.offset + v * e.factor, exact) = e.offset + v * e.factor
    BY Zenon, <1>1 DEF Linear
  <1> QED
    BY Zenon, <1>2, <1>3 DEF LinearTransformation, Linear

\* A single enumeration that is read and not transformed gets an ordinal.
LEMMA EnumerationIsRead ==
    ASSUME ModbusInv, NEW regs \in RegistersRead, ReadElement(regs),
           mc_use.field.shape = "single", mc_use.field.kind = "enum",
           mc_element.factor = 1, mc_element.offset = 0,
           \A v \in mc_element.valid : -FloatExact <= v /\ v <= FloatExact
    PROVE  mc_values'[1] \in mc_use.field.ordinals
  <1> DEFINE e == mc_element
             raw == RawValue(e, "enum", Slice(e, regs, 1))
             n == number_of_registers_primitive_type(e.datatype)
  <1>1. mc_phase = "ready" /\ mc_use.entity = "reader" /\ e.datatype # "CONSTANT_VALUE"
    BY Zenon DEF ReadElement
  <1>2. /\ e.datatype \in IntegerDatatypes /\ e.valid # {}
        /\ e.valid \subseteq mc_use.field.ordinals
        /\ ValueCount(e) = 1 /\ e.count = n
    BY Zenon, <1>1, AcceptedFits
  <1>3. e.datatype \notin BooleanDatatypes /\ e.datatype \notin FloatDatatypes
    BY Zenon, <1>2 DEF IntegerDatatypes, BooleanDatatypes, FloatDatatypes
  <1>4. n \in {1, 2, 4}
    BY Zenon, <1>2, RegistersOfAType DEF RegisterDatatypes
  <1>5. regs \in [1 .. n -> Registers]
    BY Zenon, <1>2, <1>3 DEF RegistersRead
  <1>6. check_correct_value(e, raw)
    BY <1>2, <1>3 DEF ReadElement
  <1>7. mc_values'[1] = FieldValue(e, "enum", LinearTransformation(e, raw, FloatExact))
    BY <1>2, <1>3 DEF ReadElement, get_float_value
  <1>8. is_signed_kind("enum")
    BY Zenon DEF is_signed_kind, SignedKinds
  <1>9. \A i \in 1 .. n : Slice(e, regs, 1)[i] \in Int
    BY Zenon, <1>4, <1>5, FirstSlice
  <1>10. PICK x \in Int : raw = safe_cast_signed(x, BaseOf(e.datatype))
    BY Zenon, <1>2, <1>8, <1>9, RawIsCast
  <1>11. BaseOf(e.datatype) \in Nat \ {0}
    BY Zenon, <1>2, BaseIsPositive
  <1>12. raw \in Int /\ safe_cast_signed(raw, BaseOf(e.datatype)) = raw
    BY Zenon, <1>10, <1>11, CastTwice
  <1>13. LinearTransformation(e, raw, FloatExact) = raw
    <2>1. -FloatExact <= raw /\ raw <= FloatExact
      BY Zenon, <1>2, <1>6 DEF check_correct_value
    <2> HIDE DEF raw
    <2>2. raw * e.factor = raw /\ Linear(e, raw) = raw
      BY <1>12 DEF Linear
    <2>3. FloatExact \in Nat /\ e.factor \in Int /\ e.offset \in Int
      BY ModbusUseAssumption
    <2> QED
      BY Zenon, <1>3, <1>12, <2>1, <2>2, <2>3, LinearIsExact
  <1>14. FieldValue(e, "enum", raw) = safe_cast_signed(raw, BaseOf(e.datatype))
    BY Zenon, <1>2, <1>3, <1>8 DEF FieldValue
  <1>15. mc_values'[1] = raw
    BY Zenon, <1>7, <1>12, <1>13, <1>14
  <1> QED
    BY Zenon, <1>2, <1>6, <1>15 DEF check_correct_value

\* Every step keeps ModbusInv.
LEMMA ModbusInvNext ==
    ASSUME ModbusInv, [ModbusConfigurationNext]_mcvars
    PROVE  ModbusInv'
  <1>1. CASE ConfigureStream
    <2>1. CASE check_for_errors(mc_use.element) \/ CountIsWrong(mc_use.element)
      BY Zenon, <1>1, <2>1 DEF ModbusInv, ConfigureStream
    <2>2. CASE ~(check_for_errors(mc_use.element) \/ CountIsWrong(mc_use.element))
      BY Zenon, <1>1, <2>2 DEF ModbusInv, ConfigureStream, Accepted
    <2> QED
      BY Zenon, <2>1, <2>2
  <1>2. ASSUME NEW regs, ReadElement(regs)
        PROVE  ModbusInv'
    BY Zenon, <1>2 DEF ModbusInv, ReadElement, Accepted
  <1>3. ASSUME NEW values, WriteElement(values)
        PROVE  ModbusInv'
    BY Zenon, <1>3 DEF ModbusInv, WriteElement, Accepted
  <1>4. CASE UNCHANGED mcvars
    BY Zenon, <1>4 DEF ModbusInv, Accepted, mcvars
  <1> QED
    BY Zenon, <1>1, <1>2, <1>3, <1>4 DEF ModbusConfigurationNext

\* Every step keeps that values fit their field.
LEMMA ModbusFitsNext ==
    ASSUME ModbusInv, ModbusValueFitsField, [ModbusConfigurationNext]_mcvars
    PROVE  ModbusValueFitsField'
  <1>1. CASE ConfigureStream
    <2>1. mc_values' = <<>>
      BY Zenon, <1>1 DEF ModbusInv, ConfigureStream
    <2> QED
      BY Zenon, <2>1 DEF ModbusValueFitsField
  <1>2. ASSUME NEW regs \in RegistersRead, ReadElement(regs)
        PROVE  ModbusValueFitsField'
    <2>1. mc_use' = mc_use /\ mc_element' = mc_element
      BY Zenon, <1>2 DEF ReadElement
    <2>2. Len(mc_values') = ValueCount(mc_element)
      BY Zenon, <1>2, ReadGives
    <2>3. /\ mc_phase = "ready" /\ mc_use.entity = "reader"
          /\ mc_element.datatype # "CONSTANT_VALUE"
      BY Zenon, <1>2 DEF ReadElement
    <2>4. mc_use.field.shape \in {"single", "array", "sequence"}
      BY Zenon, ModbusUseAssumption DEF ModbusInv, FieldRecords
    <2>5. /\ mc_use.field.shape = "single" => Len(mc_values') = 1
          /\ mc_use.field.shape = "array" => Len(mc_values') = mc_use.field.size
          /\ mc_use.field.shape = "sequence" =>
                 Len(mc_values') > 1 /\ Len(mc_values') <= mc_use.field.size
      BY Zenon, <2>2, <2>3, AcceptedFits
    <2>6. /\ mc_use.field.shape = "single" /\ mc_use.field.kind = "enum"
          /\ mc_element.factor = 1 /\ mc_element.offset = 0
          /\ \A v \in mc_element.valid : -FloatExact <= v /\ v <= FloatExact
          => mc_values'[1] \in mc_use.field.ordinals
      BY Zenon, <1>2, EnumerationIsRead
    <2> QED
      BY Zenon, <2>1, <2>4, <2>5, <2>6 DEF ModbusValueFitsField
  <1>3. ASSUME NEW values, WriteElement(values)
        PROVE  ModbusValueFitsField'
    BY Zenon, <1>3 DEF WriteElement, ModbusValueFitsField
  <1>4. CASE UNCHANGED mcvars
    BY Zenon, <1>4 DEF ModbusValueFitsField, mcvars
  <1> QED
    BY Zenon, <1>1, <1>2, <1>3, <1>4 DEF ModbusConfigurationNext

\* A Modbus reader that was accepted gives its field a value the field can
\* take (check_configuration_consistency, get_float_value), for elements and
\* fields of any size, whatever the registers hold.
THEOREM ValueFitsField == ModbusConfigurationSpec => []ModbusValueFitsField
  <1>1. ModbusConfigurationInit => ModbusInv /\ ModbusValueFitsField
    BY Zenon DEF ModbusConfigurationInit, ModbusInv, ModbusValueFitsField
  <1>2. ModbusInv /\ ModbusValueFitsField /\ [ModbusConfigurationNext]_mcvars
            => ModbusInv' /\ ModbusValueFitsField'
    BY Zenon, ModbusInvNext, ModbusFitsNext
  <1> QED
    BY <1>1, <1>2, PTL DEF ModbusConfigurationSpec

-----------------------------------------------------------------------------
\* The function that BigEndian computes with exists, so that it satisfies its
\* own equation.
Horner(bytes, f, n) ==
    /\ f \in [0 .. n -> Int]
    /\ \A i \in 0 .. n : f[i] = IF i = 0 THEN 0 ELSE f[i - 1] * ByteBase + bytes[i]

\* The function that BigEndian computes with exists.
LEMMA HornerExists ==
    ASSUME NEW bytes \in Seq(Int), NEW n \in 0 .. Len(bytes)
    PROVE  \E f : Horner(bytes, f, n)
<1>. DEFINE T == {k \in 0 .. Len(bytes) : ~\E f : Horner(bytes, f, k)}
<1>. SUFFICES ASSUME T # {} PROVE FALSE
  BY Zenon
<1>1. PICK k \in T : \A y \in T : k <= y
  <2>1. T \subseteq Nat
    OBVIOUS
  <2>. QED BY Zenon, <2>1, LeastNumber
<1>2. CASE k = 0
  <2>1. Horner(bytes, [i \in 0 .. 0 |-> 0], 0)
    BY DEF Horner
  <2>. QED BY Zenon, <1>2, <2>1
<1>3. CASE k > 0
  <2>0. k \in Nat /\ k - 1 \in 0 .. Len(bytes) /\ k <= Len(bytes)
    BY <1>3
  <2>1. PICK f : Horner(bytes, f, k - 1)
    BY <1>1, <2>0
  <2>. DEFINE g == [i \in 0 .. k |-> IF i = k THEN f[k - 1] * ByteBase + bytes[k] ELSE f[i]]
  <2>2. f[k - 1] \in Int /\ bytes[k] \in Int /\ ByteBase \in Int
    BY <1>3, <2>0, <2>1, ModbusUseAssumption DEF Horner
  <2>2a. f[k - 1] * ByteBase + bytes[k] \in Int
    BY SMTT(30), <2>2
  <2>3. g \in [0 .. k -> Int]
    BY <1>3, <2>0, <2>1, <2>2a DEF Horner
  <2>4. ASSUME NEW i \in 0 .. k
        PROVE  g[i] = IF i = 0 THEN 0 ELSE g[i - 1] * ByteBase + bytes[i]
    <3>1. CASE i = k
      BY <1>3, <3>1, <2>0
    <3>2. CASE i # k /\ i # 0
      BY <1>3, <3>2, <2>0, <2>1 DEF Horner
    <3>3. CASE i # k /\ i = 0
      BY SMTT(30), <1>3, <3>3, <2>0, <2>1 DEF Horner
    <3>. QED BY Zenon, <3>1, <3>2, <3>3
  <2>5. Horner(bytes, g, k)
    BY Zenon, <2>3, <2>4 DEF Horner
  <2>. QED BY Zenon, <2>5
<1>. QED BY <1>2, <1>3

\* BigEndian computes with it.
LEMMA BigEndianIs ==
    ASSUME NEW bytes \in Seq(Int)
    PROVE  \E f : /\ f[0] = 0
                  /\ \A i \in 1 .. Len(bytes) : f[i] = f[i - 1] * ByteBase + bytes[i]
                  /\ BigEndian(bytes) = f[Len(bytes)]
<1>. DEFINE n == Len(bytes)
            P(f) == f = [i \in 0 .. n |-> IF i = 0 THEN 0 ELSE f[i - 1] * ByteBase + bytes[i]]
            value == CHOOSE f : P(f)
<1>0. n \in Nat
  OBVIOUS
<1>1. PICK f : Horner(bytes, f, n)
  BY <1>0, HornerExists
<1>2. P(f)
  BY Zenon, <1>1 DEF Horner
<1>3. P(value)
  BY Zenon, <1>2
<1>4. BigEndian(bytes) = value[n]
  BY Zenon DEF BigEndian
<1>. HIDE DEF value, n
<1>5. \A i \in 0 .. n : value[i] = IF i = 0 THEN 0 ELSE value[i - 1] * ByteBase + bytes[i]
  BY <1>3, Zenon
<1>6. value[0] = 0 /\ \A i \in 1 .. n : value[i] = value[i - 1] * ByteBase + bytes[i]
  BY <1>0, <1>5
<1>. QED BY Zenon, <1>4, <1>6 DEF n

\* A register has the values of two bytes.
LEMMA Bases ==
    /\ ByteBase \in Nat /\ ByteBase > 1
    /\ RegisterBase \in Nat /\ RegisterBase > 1
    /\ RegisterBase = ByteBase * ByteBase
<1>1. ByteBase \in Nat /\ ByteBase > 1
  BY ModbusUseAssumption
<1>2. ByteBase * ByteBase > 1 /\ ByteBase * ByteBase \in Nat
  BY <1>1
<1>. QED BY Zenon, <1>1, <1>2 DEF RegisterBase

\* Quotient and remainder of a number ...
LEMMA Division ==
    ASSUME NEW a \in Int, NEW b \in Nat, b > 0
    PROVE  /\ a \div b \in Int /\ a % b \in Nat /\ a % b < b
           /\ a = (a \div b) * b + (a % b)
OBVIOUS

\* ... and that there is no other pair.
LEMMA DivisionIsUnique ==
    ASSUME NEW q \in Int, NEW b \in Nat, b > 0, NEW r \in 0 .. b - 1
    PROVE  (q * b + r) \div b = q /\ (q * b + r) % b = r
<1>. DEFINE a == q * b + r
            p == a \div b
            s == a % b
<1>1. a \in Int
  OBVIOUS
<1>2. p \in Int /\ s \in 0 .. b - 1 /\ a = p * b + s
  BY <1>1, Division
<1>. HIDE DEF p, s
<1>3. (p - q) * b = r - s
  BY <1>2
<1>4. p - q \in Int /\ r - s < b /\ r - s > -b
  BY <1>2
<1>. HIDE DEF a
<1>5. ~(p - q >= 1)
  <2>. SUFFICES ASSUME p - q >= 1 PROVE FALSE
    BY Zenon
  <2>1. (p - q) * b >= b
    BY <1>4
  <2>. QED BY <1>3, <1>4, <2>1
<1>6. ~(p - q <= -1)
  <2>. SUFFICES ASSUME p - q <= -1 PROVE FALSE
    BY Zenon
  <2>1. (p - q) * b <= -b
    BY <1>4
  <2>. QED BY <1>3, <1>4, <2>1
<1>7. p = q
  BY <1>2, <1>4, <1>5, <1>6
<1>8. s = r
  BY <1>2, <1>7 DEF a
<1>. QED BY Zenon, <1>7, <1>8 DEF p, s, a


\* Two bytes make a digit in the base of a register.
LEMMA TwoBytes ==
    ASSUME NEW x \in Int, NEW a \in Int, NEW b \in Int
    PROVE  /\ a * ByteBase + b \in Int
           /\ (x * ByteBase + a) * ByteBase + b = x * RegisterBase + (a * ByteBase + b)
BY Bases

\* The number of one byte, and of the two of a register.
LEMMA OneRegister ==
    ASSUME NEW a \in Int, NEW b \in Int
    PROVE  BigEndian(<<a>>) = a /\ BigEndian(<<a, b>>) = a * ByteBase + b
<1>1. BigEndian(<<a>>) = a
  <2>. DEFINE s == <<a>>
  <2>1. s \in Seq(Int) /\ Len(s) = 1 /\ s[1] = a
    OBVIOUS
  <2>. HIDE DEF s
  <2>2. PICK f : /\ f[0] = 0
                 /\ \A i \in 1 .. Len(s) : f[i] = f[i - 1] * ByteBase + s[i]
                 /\ BigEndian(s) = f[Len(s)]
    BY Zenon, <2>1, BigEndianIs
  <2>3. f[1] = a
    BY <2>1, <2>2, Bases
  <2>. QED BY Zenon, <2>1, <2>2, <2>3 DEF s
<1>2. BigEndian(<<a, b>>) = a * ByteBase + b
  <2>. DEFINE s == <<a, b>>
  <2>1. s \in Seq(Int) /\ Len(s) = 2 /\ s[1] = a /\ s[2] = b
    OBVIOUS
  <2>. HIDE DEF s
  <2>2. PICK f : /\ f[0] = 0
                 /\ \A i \in 1 .. Len(s) : f[i] = f[i - 1] * ByteBase + s[i]
                 /\ BigEndian(s) = f[Len(s)]
    BY Zenon, <2>1, BigEndianIs
  <2>3. f[1] = a
    BY <2>1, <2>2, Bases
  <2>4. f[2] = a * ByteBase + b
    BY <2>1, <2>2, <2>3
  <2>. QED BY Zenon, <2>1, <2>2, <2>4 DEF s
<1>. QED BY Zenon, <1>1, <1>2

\* The number of the bytes of two registers.
LEMMA TwoRegisters ==
    ASSUME NEW a \in Int, NEW b \in Int, NEW c \in Int, NEW d \in Int
    PROVE  BigEndian(<<a, b, c, d>>) =
               (a * ByteBase + b) * RegisterBase + (c * ByteBase + d)
<1>. DEFINE s == <<a, b, c, d>>
<1>1. s \in Seq(Int) /\ Len(s) = 4 /\ s[1] = a /\ s[2] = b /\ s[3] = c /\ s[4] = d
  OBVIOUS
<1>. HIDE DEF s
<1>2. PICK f : /\ f[0] = 0
               /\ \A i \in 1 .. Len(s) : f[i] = f[i - 1] * ByteBase + s[i]
               /\ BigEndian(s) = f[Len(s)]
  BY Zenon, <1>1, BigEndianIs
<1>3. f[1] = a
  BY <1>1, <1>2, Bases
<1>4. /\ f[2] = f[1] * ByteBase + b /\ f[3] = f[2] * ByteBase + c
      /\ f[4] = f[3] * ByteBase + d
  BY <1>1, <1>2
<1>5. f[2] = a * ByteBase + b /\ f[2] \in Int
  BY <1>3, <1>4, Bases
<1>6. f[4] = f[2] * RegisterBase + (c * ByteBase + d)
  <2>1. f[4] = (f[2] * ByteBase + c) * ByteBase + d
    BY <1>4, Zenon
  <2>2. \A z \in Int : (z * ByteBase + c) * ByteBase + d = z * RegisterBase + (c * ByteBase + d)
    BY TwoBytes
  <2>. QED BY <1>5, <2>1, <2>2, Zenon
<1>. QED BY Zenon, <1>1, <1>2, <1>5, <1>6 DEF s

\* The number of the bytes of four registers.
LEMMA FourRegisters ==
    ASSUME NEW a \in Int, NEW b \in Int, NEW c \in Int, NEW d \in Int,
           NEW g \in Int, NEW h \in Int, NEW k \in Int, NEW l \in Int
    PROVE  BigEndian(<<a, b, c, d, g, h, k, l>>) =
               (((a * ByteBase + b) * RegisterBase + (c * ByteBase + d)) * RegisterBase
                  + (g * ByteBase + h)) * RegisterBase + (k * ByteBase + l)
<1>. DEFINE s == <<a, b, c, d, g, h, k, l>>
<1>1. /\ s \in Seq(Int) /\ Len(s) = 8 /\ s[1] = a /\ s[2] = b /\ s[3] = c /\ s[4] = d
      /\ s[5] = g /\ s[6] = h /\ s[7] = k /\ s[8] = l
  OBVIOUS
<1>. HIDE DEF s
<1>2. PICK f : /\ f[0] = 0
               /\ \A i \in 1 .. Len(s) : f[i] = f[i - 1] * ByteBase + s[i]
               /\ BigEndian(s) = f[Len(s)]
  BY Zenon, <1>1, BigEndianIs
<1>3. f[1] = a
  BY SMTT(30), <1>1, <1>2, Bases
<1>4. /\ f[2] = f[1] * ByteBase + b /\ f[3] = f[2] * ByteBase + c
      /\ f[4] = f[3] * ByteBase + d /\ f[5] = f[4] * ByteBase + g
      /\ f[6] = f[5] * ByteBase + h /\ f[7] = f[6] * ByteBase + k
      /\ f[8] = f[7] * ByteBase + l
  BY <1>1, <1>2
<1>5. f[2] = a * ByteBase + b /\ f[2] \in Int
  BY <1>3, <1>4, Bases
<1>6. f[4] = f[2] * RegisterBase + (c * ByteBase + d) /\ f[4] \in Int
  <2>1. f[4] = f[2] * RegisterBase + (c * ByteBase + d)
    <3>1. f[4] = (f[2] * ByteBase + c) * ByteBase + d
      BY <1>4, Zenon
    <3>2. \A z \in Int : (z * ByteBase + c) * ByteBase + d = z * RegisterBase + (c * ByteBase + d)
      BY TwoBytes
    <3>. QED BY <1>5, <3>1, <3>2, Zenon
  <2>2. c * ByteBase + d \in Int
    BY Zenon, TwoBytes
  <2>. QED BY <1>5, <2>1, <2>2, Bases
<1>7. f[6] = f[4] * RegisterBase + (g * ByteBase + h) /\ f[6] \in Int
  <2>1. f[6] = f[4] * RegisterBase + (g * ByteBase + h)
    <3>1. f[6] = (f[4] * ByteBase + g) * ByteBase + h
      BY <1>4, Zenon
    <3>2. \A z \in Int : (z * ByteBase + g) * ByteBase + h = z * RegisterBase + (g * ByteBase + h)
      BY TwoBytes
    <3>. QED BY <1>6, <3>1, <3>2, Zenon
  <2>2. g * ByteBase + h \in Int
    BY Zenon, TwoBytes
  <2>. QED BY <1>6, <2>1, <2>2, Bases
<1>8. f[8] = f[6] * RegisterBase + (k * ByteBase + l)
  <2>1. f[8] = (f[6] * ByteBase + k) * ByteBase + l
    BY <1>4, Zenon
  <2>2. \A z \in Int : (z * ByteBase + k) * ByteBase + l = z * RegisterBase + (k * ByteBase + l)
    BY TwoBytes
  <2>. QED BY <1>7, <2>1, <2>2, Zenon
<1>9. BigEndian(s) = f[8]
  BY Zenon, <1>1, <1>2
<1>. QED BY Zenon, <1>5, <1>6, <1>7, <1>8, <1>9 DEF s

\* The number that registers denote, without its sign, in terms of the
\* registers.
Whole(datatype, r) ==
    CASE datatype = "INT8" -> r[1] % ByteBase
      [] datatype = "INT16" -> r[1]
      [] datatype = "INT32" -> int16_to_int32(r)
      [] datatype = "INT64" -> int16_to_int64(r)
      [] OTHER -> int16_to_float(datatype, r)

NumberDatatypes == IntegerDatatypes \cup FloatDatatypes

\* The bytes in their order are the digits of the number the registers hold.
LEMMA BytesMakeTheWhole ==
    ASSUME NEW datatype \in NumberDatatypes, NEW r,
           \A i \in 1 .. number_of_registers_primitive_type(datatype) : r[i] \in Int
    PROVE  BigEndian(BytesOf(datatype, r)) = Whole(datatype, r)
<1>. DEFINE hi(i) == r[i] \div ByteBase
            lo(i) == r[i] % ByteBase
            B(i) == hi(i) * ByteBase + lo(i)
<1>1. \A i \in 1 .. number_of_registers_primitive_type(datatype) :
          hi(i) \in Int /\ lo(i) \in Int /\ r[i] = B(i)
  BY Bases, Division
<1>2. CASE datatype = "INT8"
  <2>1. r[1] \in Int /\ lo(1) \in Int
    BY <1>1, <1>2 DEF number_of_registers_primitive_type, BooleanDatatypes, FloatDatatypes
  <2>. QED BY Zenon, <1>2, <2>1, OneRegister DEF BytesOf, Whole
<1>3. CASE datatype = "INT16"
  <2>1. r[1] = B(1) /\ hi(1) \in Int /\ lo(1) \in Int
    BY <1>1, <1>3 DEF number_of_registers_primitive_type, BooleanDatatypes, FloatDatatypes
  <2>2. BigEndian(<<hi(1), lo(1)>>) = B(1)
    BY Zenon, <2>1, OneRegister
  <2>. QED BY Zenon, <1>3, <2>1, <2>2 DEF BytesOf, Whole
<1>4. CASE datatype \in FloatDatatypes \cup {"INT32"}
  <2>1. /\ r[1] = B(1) /\ hi(1) \in Int /\ lo(1) \in Int
        /\ r[2] = B(2) /\ hi(2) \in Int /\ lo(2) \in Int
    BY <1>1, <1>4 DEF number_of_registers_primitive_type, BooleanDatatypes, FloatDatatypes
  <2>. HIDE DEF hi, lo
  <2>2. /\ BigEndian(<<hi(1), lo(1), hi(2), lo(2)>>) = B(1) * RegisterBase + B(2)
        /\ BigEndian(<<hi(2), lo(2), hi(1), lo(1)>>) = B(2) * RegisterBase + B(1)
    BY SMTT(30), <2>1, TwoRegisters
  <2>3. /\ BigEndian(<<lo(1), hi(1), lo(2), hi(2)>>) =
               (lo(1) * ByteBase + hi(1)) * RegisterBase + (lo(2) * ByteBase + hi(2))
        /\ BigEndian(<<lo(2), hi(2), lo(1), hi(1)>>) =
               (lo(2) * ByteBase + hi(2)) * RegisterBase + (lo(1) * ByteBase + hi(1))
    BY <2>1, TwoRegisters
  <2>4. CASE datatype = "INT32"
    BY Zenon, <2>1, <2>2, <2>4 DEF BytesOf, Whole, int16_to_int32, hi, lo
  <2>5. CASE datatype = "FLOAT_ABCD"
    BY Zenon, <2>1, <2>2, <2>5 DEF BytesOf, Whole, int16_to_float, hi, lo
  <2>6. CASE datatype = "FLOAT_BADC"
    BY Zenon, <2>1, <2>3, <2>6 DEF BytesOf, Whole, int16_to_float, SwapBytes, hi, lo
  <2>7. CASE datatype = "FLOAT_CDAB"
    BY Zenon, <2>1, <2>2, <2>7 DEF BytesOf, Whole, int16_to_float, hi, lo
  <2>8. CASE datatype = "FLOAT_DCBA"
    BY Zenon, <2>1, <2>3, <2>8 DEF BytesOf, Whole, int16_to_float, SwapBytes, hi, lo
  <2>. QED BY Zenon, <1>4, <2>4, <2>5, <2>6, <2>7, <2>8 DEF FloatDatatypes
<1>5. CASE datatype = "INT64"
  <2>1. /\ r[1] = B(1) /\ hi(1) \in Int /\ lo(1) \in Int
        /\ r[2] = B(2) /\ hi(2) \in Int /\ lo(2) \in Int
        /\ r[3] = B(3) /\ hi(3) \in Int /\ lo(3) \in Int
        /\ r[4] = B(4) /\ hi(4) \in Int /\ lo(4) \in Int
    BY SMTT(30), <1>1, <1>5
       DEF number_of_registers_primitive_type, BooleanDatatypes, FloatDatatypes
  <2>. HIDE DEF hi, lo
  <2>2. BigEndian(<<hi(1), lo(1), hi(2), lo(2), hi(3), lo(3), hi(4), lo(4)>>) =
            ((B(1) * RegisterBase + B(2)) * RegisterBase + B(3)) * RegisterBase + B(4)
    BY <2>1, FourRegisters
  <2>. HIDE DEF B
  <2>. QED BY Zenon, <1>5, <2>1, <2>2 DEF BytesOf, Whole, int16_to_int64, hi, lo
<1>. QED BY Zenon, <1>2, <1>3, <1>4, <1>5 DEF NumberDatatypes, IntegerDatatypes

\* A cast keeps a number of its own width.
LEMMA CastKeeps ==
    ASSUME NEW b \in Nat \ {0}, NEW v \in Int
    PROVE  /\ 0 <= v /\ v < b => v % b = v
           /\ -(b \div 2) <= v /\ v < b \div 2 => safe_cast_signed(v, b) = v
<1>1. CASE 0 <= v /\ v < b
  <2>1. v % b = v
    BY <1>1, ModShift
  <2>. QED BY <1>1, <2>1 DEF safe_cast_signed
<1>2. CASE v < 0 /\ -(b \div 2) <= v
  <2>1. b \div 2 \in Nat /\ (b \div 2) + (b \div 2) <= b
    OBVIOUS
  <2>2. v + b \in 0 .. b - 1 /\ v + b >= b \div 2 /\ v = (v + b) - b
    BY <1>2, <2>1
  <2>3. v % b = v + b
    BY Zenon, <2>2, ModShift
  <2>. QED BY <1>2, <2>2, <2>3 DEF safe_cast_signed
<1>3. CASE v < -(b \div 2) \/ v >= b
  <2>1. b \div 2 \in Nat /\ b \div 2 <= b
    OBVIOUS
  <2>. QED BY <1>3, <2>1
<1>. QED BY <1>1, <1>2, <1>3

\* Two digits of a base are a number below its square, and the other way.
LEMMA TwoDigits ==
    ASSUME NEW b \in Nat, b > 0, NEW c \in Nat, c > 0, NEW x \in 0 .. c - 1, NEW y \in 0 .. b - 1
    PROVE  x * b + y \in 0 .. c * b - 1
<1>1. x * b <= (c - 1) * b
  OBVIOUS
<1>2. (c - 1) * b = c * b - b /\ x * b >= 0 /\ x * b \in Int /\ c * b \in Int
  OBVIOUS
<1>. QED BY <1>1, <1>2

\* The upper part of a number of two digits is a digit.
LEMMA Quotient ==
    ASSUME NEW b \in Nat, b > 0, NEW c \in Nat, c > 0, NEW v \in 0 .. c * b - 1
    PROVE  v \div b \in 0 .. c - 1
<1>. DEFINE q == v \div b
            m == v % b
<1>1. q \in Int /\ m \in Nat /\ m < b /\ v = q * b + m
  BY Division
<1>. HIDE DEF q, m
<1>2. ~(q < 0)
  <2>. SUFFICES ASSUME q <= -1 PROVE FALSE
    BY <1>1
  <2>1. q * b <= -b
    BY <1>1
  <2>. QED BY <1>1, <2>1
<1>3. ~(q >= c)
  <2>. SUFFICES ASSUME q >= c PROVE FALSE
    BY Zenon, <1>1
  <2>1. q * b >= c * b /\ c * b \in Int
    BY <1>1
  <2>. QED BY <1>1, <2>1
<1>. QED BY <1>1, <1>2, <1>3 DEF q

\* Dividing twice.
LEMMA DivideTwice ==
    ASSUME NEW v \in Nat, NEW b \in Nat, b > 0, NEW c \in Nat, c > 0
    PROVE  (v \div b) \div c = v \div (c * b)
<1>. DEFINE q == v \div b
            m == v % b
            p == q \div c
            n == q % c
<1>1. q \in Int /\ m \in 0 .. b - 1 /\ v = q * b + m
  BY Division
<1>. HIDE DEF q, m
<1>2. p \in Int /\ n \in 0 .. c - 1 /\ q = p * c + n
  BY <1>1, Division
<1>. HIDE DEF p, n
<1>3. n * b + m \in 0 .. c * b - 1
  BY Zenon, <1>1, <1>2, TwoDigits
<1>4. v = p * (c * b) + (n * b + m)
  <2>1. v = (p * c + n) * b + m
    BY Zenon, <1>1, <1>2
  <2>2. (p * c + n) * b + m = p * (c * b) + (n * b + m)
    BY <1>1, <1>2
  <2>. QED BY Zenon, <2>1, <2>2
<1>5. c * b \in Nat /\ c * b > 0
  OBVIOUS
<1>6. v \div (c * b) = p
  BY Zenon, <1>2, <1>3, <1>4, <1>5, DivisionIsUnique
<1>. QED BY Zenon, <1>6 DEF p, q

\* Registers that are in range make a number of the datatype's width.
LEMMA WholeInRange ==
    ASSUME NEW datatype \in IntegerDatatypes, NEW r,
           \A i \in 1 .. number_of_registers_primitive_type(datatype) : r[i] \in Registers
    PROVE  Whole(datatype, r) \in 0 .. BaseOf(datatype) - 1
<1>. DEFINE b == RegisterBase
<1>0. b \in Nat /\ b > 0 /\ b * b \in Nat /\ b * b > 0 /\ ByteBase \in Nat /\ ByteBase > 0
  BY Bases
<1>1. CASE datatype = "INT8"
  <2>1. r[1] \in Int
    BY <1>1, Bases
       DEF number_of_registers_primitive_type, BooleanDatatypes, FloatDatatypes, Registers
  <2>2. r[1] % ByteBase \in 0 .. ByteBase - 1
    BY <1>0, <2>1, Division
  <2>. QED BY Zenon, <1>1, <2>2 DEF Whole, BaseOf
<1>2. CASE datatype = "INT16"
  <2>1. r[1] \in Registers
    BY <1>2 DEF number_of_registers_primitive_type, BooleanDatatypes, FloatDatatypes
  <2>. QED BY Zenon, <1>2, <2>1 DEF Whole, BaseOf, Registers
<1>3. CASE datatype = "INT32"
  <2>1. r[1] \in 0 .. b - 1 /\ r[2] \in 0 .. b - 1
    BY <1>3 DEF number_of_registers_primitive_type, BooleanDatatypes, FloatDatatypes, Registers
  <2>2. r[1] * b + r[2] \in 0 .. b * b - 1
    BY Zenon, <1>0, <2>1, TwoDigits
  <2>. QED BY Zenon, <1>3, <2>2 DEF Whole, BaseOf, int16_to_int32
<1>4. CASE datatype = "INT64"
  <2>1. r[1] \in 0 .. b - 1 /\ r[2] \in 0 .. b - 1 /\ r[3] \in 0 .. b - 1 /\ r[4] \in 0 .. b - 1
    BY <1>4 DEF number_of_registers_primitive_type, BooleanDatatypes, FloatDatatypes, Registers
  <2>2. r[1] * b + r[2] \in 0 .. b * b - 1
    BY Zenon, <1>0, <2>1, TwoDigits
  <2>3. (r[1] * b + r[2]) * b + r[3] \in 0 .. (b * b) * b - 1
    BY Zenon, <1>0, <2>1, <2>2, TwoDigits
  <2>4. (b * b) * b \in Nat /\ (b * b) * b > 0
    BY <1>0
  <2>5. ((r[1] * b + r[2]) * b + r[3]) * b + r[4] \in 0 .. ((b * b) * b) * b - 1
    BY Zenon, <1>0, <2>1, <2>3, <2>4, TwoDigits
  <2>6. ((b * b) * b) * b = (b * b) * (b * b)
    BY <1>0
  <2>. QED BY Zenon, <1>4, <2>5, <2>6 DEF Whole, BaseOf, int16_to_int64
<1>. QED BY Zenon, <1>1, <1>2, <1>3, <1>4 DEF IntegerDatatypes

\* No datatype is both for integers and for floating point.
LEMMA DatatypesApart == IntegerDatatypes \cap FloatDatatypes = {}
BY Zenon DEF IntegerDatatypes, FloatDatatypes

\* What the registers denote for an integer is the cast of their number.
LEMMA DenotedInteger ==
    ASSUME NEW datatype \in IntegerDatatypes, NEW kind, NEW r, NEW x \in Int,
           \A i \in 1 .. number_of_registers_primitive_type(datatype) : r[i] \in Int,
           Whole(datatype, r) = x % BaseOf(datatype)
    PROVE  Denoted(datatype, kind, r) =
               IF is_signed_kind(kind) THEN safe_cast_signed(x, BaseOf(datatype))
                                       ELSE safe_cast_unsigned(x, BaseOf(datatype))
<1>1. BigEndian(BytesOf(datatype, r)) = x % BaseOf(datatype)
  BY Zenon, BytesMakeTheWhole DEF NumberDatatypes
<1>. QED BY Zenon, <1>1 DEF Denoted, safe_cast_signed, safe_cast_unsigned

\* The reader takes from the registers the number that they denote.
LEMMA ReaderReads ==
    ASSUME NEW e, e.datatype \in NumberDatatypes, NEW kind, NEW r,
           \A i \in 1 .. number_of_registers_primitive_type(e.datatype) : r[i] \in Registers
    PROVE  /\ RawValue(e, kind, r) = Denoted(e.datatype, kind, r)
           /\ RawValue(e, kind, r) \in Int
<1>. DEFINE dt == e.datatype
            n == number_of_registers_primitive_type(dt)
            b == BaseOf(dt)
<1>0. Registers \subseteq Int /\ RegisterBase \in Int /\ ByteBase \in Nat \ {0}
  BY Bases DEF Registers
<1>1. \A i \in 1 .. n : r[i] \in Int
  BY Zenon, <1>0
<1>2. CASE dt \in IntegerDatatypes
  <2>. DEFINE x == IF dt \in {"INT8", "INT16"} THEN r[1]
                   ELSE IF dt = "INT32" THEN int16_to_int32(r) ELSE int16_to_int64(r)
  <2>1. Whole(dt, r) \in 0 .. b - 1 /\ b \in Nat \ {0}
    BY Zenon, <1>2, WholeInRange, BaseIsPositive
  <2>2. Whole(dt, r) % b = Whole(dt, r)
    BY Zenon, <2>1, ModShift
  <2>3. x \in Int /\ Whole(dt, r) = x % b
    <3>1. CASE dt = "INT8"
      <4>1. r[1] \in Int
        BY <1>1, <3>1 DEF number_of_registers_primitive_type, BooleanDatatypes, FloatDatatypes
      <4>. QED BY Zenon, <3>1, <4>1 DEF Whole, BaseOf
    <3>2. CASE dt # "INT8"
      <4>1. x = Whole(dt, r)
        BY Zenon, <1>2, <3>2 DEF Whole, IntegerDatatypes
      <4>. HIDE DEF x, b, dt
      <4>. QED BY <2>1, <2>2, <4>1
    <3>. QED BY Zenon, <3>1, <3>2
  <2>4. RawValue(e, kind, r) = IF is_signed_kind(kind) THEN safe_cast_signed(x, b)
                                                       ELSE safe_cast_unsigned(x, b)
    BY Zenon, <1>2 DEF RawValue, IntegerDatatypes, FloatDatatypes
  <2>. HIDE DEF x
  <2>5. RawValue(e, kind, r) = Denoted(dt, kind, r)
    BY Zenon, <1>1, <1>2, <2>3, <2>4, DenotedInteger
  <2>. HIDE DEF b
  <2>6. x % b \in Int
    BY SMTT(30), <2>1, <2>3
  <2>. QED BY <2>1, <2>4, <2>5, <2>6 DEF safe_cast_signed, safe_cast_unsigned
<1>3. CASE dt \in FloatDatatypes
  <2>1. dt \notin IntegerDatatypes
    BY Zenon, <1>3, DatatypesApart
  <2>2. RawValue(e, kind, r) = int16_to_float(dt, r) /\ Whole(dt, r) = int16_to_float(dt, r)
    BY Zenon, <1>3 DEF RawValue, Whole, FloatDatatypes
  <2>3. Denoted(dt, kind, r) = Whole(dt, r)
    BY Zenon, <1>1, <1>3, <2>1, BytesMakeTheWhole DEF Denoted, NumberDatatypes
  <2>4. r[1] \in Int /\ r[2] \in Int
    BY <1>1, <1>3 DEF number_of_registers_primitive_type, BooleanDatatypes, FloatDatatypes
  <2>5. SwapBytes(r[1]) \in Int /\ SwapBytes(r[2]) \in Int
    BY <1>0, <2>4 DEF SwapBytes
  <2>6. int16_to_float(dt, r) \in Int
    BY SMTT(30), <1>0, <1>3, <2>4, <2>5 DEF int16_to_float, FloatDatatypes
  <2>. QED BY Zenon, <2>2, <2>3, <2>6
<1>. QED BY Zenon, <1>2, <1>3 DEF NumberDatatypes

\* The registers the writer makes of a number are those of its low bits.
LEMMA WriterWrites ==
    ASSUME NEW e, e.datatype \in IntegerDatatypes, NEW v \in Int
    PROVE  /\ Whole(e.datatype, RegistersOf(e, v)) = v % BaseOf(e.datatype)
           /\ \A i \in 1 .. number_of_registers_primitive_type(e.datatype) :
                  RegistersOf(e, v)[i] \in Int
<1>. DEFINE dt == e.datatype
            b == RegisterBase
            y == v % BaseOf(dt)
            r == RegistersOf(e, v)
<1>0. b \in Nat /\ b > 0 /\ ByteBase \in Nat /\ ByteBase > 0
  BY Bases
<1>1. BaseOf(dt) \in Nat \ {0}
  BY Zenon, BaseIsPositive
<1>2. y \in 0 .. BaseOf(dt) - 1
  BY <1>1, Division
<1>. HIDE DEF y
<1>3. CASE dt \in {"INT8", "INT16"}
  <2>1. r = <<y>>
    BY Zenon, <1>3 DEF RegistersOf, safe_cast_unsigned, y, FloatDatatypes
  <2>2. number_of_registers_primitive_type(dt) = 1
    BY Zenon, <1>3 DEF number_of_registers_primitive_type, BooleanDatatypes, FloatDatatypes
  <2>3. dt = "INT8" => y % ByteBase = y
    BY <1>0, <1>2, ModShift DEF BaseOf
  <2>4. r[1] = y /\ y \in Int
    BY <1>2, <2>1
  <2>5. Whole(dt, r) = y
    BY Zenon, <1>3, <2>3, <2>4 DEF Whole
  <2>. QED BY <2>2, <2>4, <2>5 DEF y
<1>4. CASE dt = "INT32"
  <2>1. r = <<y \div b, y % b>>
    BY Zenon, <1>4 DEF RegistersOf, safe_cast_unsigned, int32_to_int16, y, FloatDatatypes
  <2>2. y \div b \in Int /\ y % b \in Int /\ y = (y \div b) * b + (y % b)
    BY <1>0, <1>2, Division
  <2>3. number_of_registers_primitive_type(dt) = 2
    BY Zenon, <1>4 DEF number_of_registers_primitive_type, BooleanDatatypes
  <2>4. r[1] = y \div b /\ r[2] = y % b
    BY <2>1
  <2>5. Whole(dt, r) = y
    BY Zenon, <1>4, <2>2, <2>4 DEF Whole, int16_to_int32
  <2>. QED BY <2>2, <2>3, <2>4, <2>5 DEF y
<1>5. CASE dt = "INT64"
  <2>. DEFINE p == y \div b
              q == y \div (b * b)
              s == y \div ((b * b) * b)
  <2>1. r = <<s % b, q % b, p % b, y % b>>
    BY Zenon, <1>5 DEF RegistersOf, safe_cast_unsigned, int64_to_int16, y, FloatDatatypes
  <2>0. y \in Nat /\ b * b \in Nat /\ b * b > 0 /\ (b * b) * b \in Nat /\ (b * b) * b > 0
    BY <1>0, <1>2
  <2>2. q = p \div b
    BY <1>0, <2>0, DivideTwice
  <2>3. s = q \div b
    <3>1. s = (y \div (b * b)) \div b
      <4>1. (y \div (b * b)) \div b = y \div (b * (b * b))
        BY <1>0, <2>0, DivideTwice
      <4>2. b * (b * b) = (b * b) * b
        BY <1>0
      <4>. QED BY Zenon, <4>1, <4>2
    <3>. QED BY Zenon, <3>1
  <2>4. s \in 0 .. b - 1
    <3>1. BaseOf(dt) = b * ((b * b) * b)
      <4>1. (b * b) * (b * b) = b * ((b * b) * b)
        BY <1>0
      <4>. QED BY Zenon, <1>5, <4>1 DEF BaseOf
    <3>. QED BY Zenon, <1>0, <1>2, <2>0, <3>1, Quotient
  <2>5. s % b = s
    BY <1>0, <2>4, ModShift
  <2>6. /\ p \in Int /\ y % b \in Int /\ y = p * b + (y % b)
    BY <1>0, <2>0, Division
  <2>. HIDE DEF s, q, p
  <2>7. /\ q \in Int /\ p % b \in Int /\ p = q * b + (p % b)
    BY <1>0, <2>2, <2>6, Division
  <2>8. /\ s \in Int /\ q % b \in Int /\ q = s * b + (q % b)
    BY <1>0, <2>3, <2>7, Division
  <2>9. r[1] = s /\ r[2] = q % b /\ r[3] = p % b /\ r[4] = y % b
    BY SMTT(30), <2>1, <2>5
  <2>10. ((r[1] * b + r[2]) * b + r[3]) * b + r[4] = y
    BY Zenon, <2>6, <2>7, <2>8, <2>9
  <2>11. Whole(dt, r) = y
    BY Zenon, <1>5, <2>10 DEF Whole, int16_to_int64
  <2>12. number_of_registers_primitive_type(dt) = 4
    BY Zenon, <1>5 DEF number_of_registers_primitive_type, BooleanDatatypes, FloatDatatypes
  <2>. QED BY <2>6, <2>7, <2>8, <2>9, <2>11, <2>12 DEF y
<1>. QED BY Zenon, <1>3, <1>4, <1>5 DEF IntegerDatatypes

\* Swapping the bytes of a register twice changes nothing.
LEMMA SwapTwice ==
    ASSUME NEW x \in Registers
    PROVE  SwapBytes(x) \in Int /\ SwapBytes(SwapBytes(x)) = x
<1>. DEFINE b == ByteBase
            h == x \div b
            l == x % b
<1>0. b \in Nat /\ b > 0
  BY Bases
<1>1. x \in 0 .. b * b - 1 /\ x \in Int
  BY Bases DEF Registers
<1>2. h \in 0 .. b - 1
  BY Zenon, <1>0, <1>1, Quotient
<1>3. l \in 0 .. b - 1 /\ x = h * b + l
  BY <1>0, <1>1, Division
<1>4. SwapBytes(x) = l * b + h
  BY Zenon DEF SwapBytes
<1>. HIDE DEF h, l
<1>5. (l * b + h) \div b = l /\ (l * b + h) % b = h
  BY <1>0, <1>2, <1>3, DivisionIsUnique
<1>6. l * b + h \in Int
  BY <1>0, <1>2, <1>3
<1>. HIDE DEF b
<1>7. SwapBytes(SwapBytes(x)) = h * b + l
  <2>1. SwapBytes(l * b + h) = ((l * b + h) % b) * b + ((l * b + h) \div b)
    BY Zenon DEF SwapBytes, b
  <2>. QED BY Zenon, <1>4, <1>5, <2>1
<1>. QED BY Zenon, <1>3, <1>4, <1>6, <1>7

\* A float that is written is denoted by its registers, in each byte order.
LEMMA FloatWrites ==
    ASSUME NEW e, e.datatype \in FloatDatatypes, NEW kind,
           NEW v \in 0 .. RegisterBase * RegisterBase - 1
    PROVE  /\ Denoted(e.datatype, kind, RegistersOf(e, v)) = v
           /\ \A i \in 1 .. 2 : RegistersOf(e, v)[i] \in Int
<1>. DEFINE dt == e.datatype
            b == RegisterBase
            hi == v \div b
            lo == v % b
            r == RegistersOf(e, v)
<1>0. b \in Nat /\ b > 0
  BY Bases
<1>1. hi \in Registers
  BY Zenon, <1>0, Quotient DEF Registers
<1>2. lo \in Registers /\ v = hi * b + lo
  <2>1. v \in Int
    BY <1>0
  <2>. QED BY <1>0, <2>1, Division DEF Registers
<1>3. r = float_to_int16(dt, v)
  BY Zenon DEF RegistersOf, FloatDatatypes
<1>. HIDE DEF hi, lo
<1>4. hi \in Int /\ lo \in Int
  BY <1>0, <1>1, <1>2 DEF Registers
<1>5. /\ SwapBytes(hi) \in Int /\ SwapBytes(lo) \in Int
      /\ SwapBytes(SwapBytes(hi)) = hi /\ SwapBytes(SwapBytes(lo)) = lo
  BY Zenon, <1>1, <1>2, SwapTwice
<1>6. r = CASE dt = "FLOAT_ABCD" -> <<hi, lo>>
            [] dt = "FLOAT_BADC" -> <<SwapBytes(hi), SwapBytes(lo)>>
            [] dt = "FLOAT_CDAB" -> <<lo, hi>>
            [] dt = "FLOAT_DCBA" -> <<SwapBytes(lo), SwapBytes(hi)>>
  BY Zenon, <1>3 DEF float_to_int16, hi, lo
<1>. HIDE DEF r
<1>7. r[1] \in Int /\ r[2] \in Int
  BY Zenon, <1>4, <1>5, <1>6 DEF FloatDatatypes
<1>8. int16_to_float(dt, r) = hi * b + lo
  <2>1. CASE dt = "FLOAT_ABCD"
    BY Zenon, <1>6, <2>1 DEF int16_to_float
  <2>2. CASE dt = "FLOAT_BADC"
    BY Zenon, <1>5, <1>6, <2>2 DEF int16_to_float
  <2>3. CASE dt = "FLOAT_CDAB"
    BY Zenon, <1>6, <2>3 DEF int16_to_float
  <2>4. CASE dt = "FLOAT_DCBA"
    BY Zenon, <1>5, <1>6, <2>4 DEF int16_to_float
  <2>. QED BY Zenon, <2>1, <2>2, <2>3, <2>4 DEF FloatDatatypes
<1>9. Whole(dt, r) = v
  BY Zenon, <1>2, <1>8 DEF Whole, FloatDatatypes
<1>10. number_of_registers_primitive_type(dt) = 2
  BY Zenon DEF number_of_registers_primitive_type, BooleanDatatypes, FloatDatatypes
<1>11. \A i \in 1 .. 2 : r[i] \in Int
  BY <1>7
<1>12. BigEndian(BytesOf(dt, r)) = v
  BY Zenon, <1>9, <1>10, <1>11, BytesMakeTheWhole DEF NumberDatatypes
<1>13. dt \notin IntegerDatatypes
  BY Zenon, DatatypesApart
<1>. QED BY Zenon, <1>11, <1>12, <1>13 DEF Denoted, r

\* The registers the writer makes of a number that the datatype can transfer
\* denote that number.
LEMMA WriterDenotes ==
    ASSUME NEW e, e.datatype \in NumberDatatypes, NEW kind, NEW v \in Int,
           InRange(e.datatype, kind, v)
    PROVE  Denoted(e.datatype, kind, RegistersOf(e, v)) = v
<1>1. CASE e.datatype \in FloatDatatypes
  <2>1. v \in 0 .. RegisterBase * RegisterBase - 1
    <3>1. RegisterBase * RegisterBase \in Int
      BY Bases
    <3>. QED BY <1>1, <3>1 DEF InRange
  <2>. QED BY Zenon, <1>1, <2>1, FloatWrites
<1>2. CASE e.datatype \in IntegerDatatypes
  <2>. DEFINE b == BaseOf(e.datatype)
  <2>1. b \in Nat \ {0}
    BY Zenon, <1>2, BaseIsPositive
  <2>2. e.datatype \notin FloatDatatypes
    BY Zenon, <1>2, DatatypesApart
  <2>3. Denoted(e.datatype, kind, RegistersOf(e, v)) =
            IF is_signed_kind(kind) THEN safe_cast_signed(v, b) ELSE safe_cast_unsigned(v, b)
    BY Zenon, <1>2, WriterWrites, DenotedInteger
  <2>4. IF is_signed_kind(kind) THEN -(b \div 2) <= v /\ v < b \div 2 ELSE 0 <= v /\ v < b
    BY Zenon, <2>2 DEF InRange
  <2>. HIDE DEF b
  <2>5. IF is_signed_kind(kind) THEN safe_cast_signed(v, b) = v ELSE v % b = v
    BY Zenon, <2>1, <2>4, CastKeeps
  <2>. QED BY <2>3, <2>5 DEF safe_cast_unsigned
<1>. QED BY Zenon, <1>1, <1>2 DEF NumberDatatypes

\* A datatype for numbers has one, two or four registers.
LEMMA NumberRegisters ==
    ASSUME NEW datatype \in NumberDatatypes
    PROVE  number_of_registers_primitive_type(datatype) \in {1, 2, 4}
BY Zenon, RegistersOfAType DEF NumberDatatypes, RegisterDatatypes

\* The registers of value k are its n registers in their order.
SliceAt(e, n, m, regs, k) ==
    \A i \in 1 .. n : /\ Slice(e, regs, k)[i] = regs[(k - 1) * n + i]
                      /\ (k - 1) * n + i \in 1 .. m
\* This is what Slice gives.
LEMMA SliceIs ==
    ASSUME NEW e, e.datatype \in NumberDatatypes, NEW n,
           n = number_of_registers_primitive_type(e.datatype),
           NEW m \in Nat, NEW S, NEW regs \in [1 .. m -> S],
           NEW k \in Nat \ {0}, k * n <= m
    PROVE  SliceAt(e, n, m, regs, k)
<1>0. n \in {1, 2, 4}
  BY Zenon, NumberRegisters
<1>1. regs \in Seq(S) /\ Len(regs) = m
  OBVIOUS
<1>2. Slice(e, regs, k) = SubSeq(regs, (k - 1) * n + 1, k * n)
  BY Zenon DEF Slice
<1>3. /\ (k - 1) * n + 1 \in 1 .. m /\ k * n \in 1 .. m /\ k * n - (k - 1) * n = n
      /\ (k - 1) * n \in Nat
  <2>1. CASE n = 1 BY <2>1
  <2>2. CASE n = 2 BY <2>2
  <2>3. CASE n = 4 BY <2>3
  <2>. QED BY Zenon, <1>0, <2>1, <2>2, <2>3
<1>. DEFINE a == (k - 1) * n
            c == k * n
<1>4. a \in Nat /\ c \in 1 .. m /\ c = a + n /\ a + 1 \in 1 .. m
  BY <1>0, <1>3
<1>. HIDE DEF a, c
<1>5. \A i \in 1 .. n : SubSeq(regs, a + 1, c)[i] = regs[a + i] /\ a + i \in 1 .. m
  BY SMTT(30), <1>0, <1>1, <1>4
<1>. QED BY Zenon, <1>2, <1>5 DEF a, c, SliceAt

\* What is denoted depends on the registers of the datatype only.
LEMMA SameRegisters ==
    ASSUME NEW datatype \in NumberDatatypes, NEW kind, NEW r, NEW s,
           \A i \in 1 .. number_of_registers_primitive_type(datatype) : r[i] = s[i]
    PROVE  Denoted(datatype, kind, r) = Denoted(datatype, kind, s)
<1>1. BytesOf(datatype, r) = BytesOf(datatype, s)
  <2>1. CASE datatype \in {"INT8", "INT16"}
    <3>1. r[1] = s[1]
      BY <2>1 DEF number_of_registers_primitive_type, FloatDatatypes, BooleanDatatypes
    <3>. QED BY Zenon, <2>1, <3>1 DEF BytesOf
  <2>2. CASE datatype \in FloatDatatypes \cup {"INT32"}
    <3>1. r[1] = s[1] /\ r[2] = s[2]
      BY <2>2 DEF number_of_registers_primitive_type, FloatDatatypes, BooleanDatatypes
    <3>. QED BY Zenon, <2>2, <3>1 DEF BytesOf, FloatDatatypes
  <2>3. CASE datatype = "INT64"
    <3>1. r[1] = s[1] /\ r[2] = s[2] /\ r[3] = s[3] /\ r[4] = s[4]
      BY <2>3 DEF number_of_registers_primitive_type, FloatDatatypes, BooleanDatatypes
    <3>. QED BY Zenon, <2>3, <3>1 DEF BytesOf
  <2>. QED BY Zenon, <2>1, <2>2, <2>3 DEF NumberDatatypes, IntegerDatatypes
<1>. QED BY Zenon, <1>1 DEF Denoted

\* The transformed value is stored as it is when the datatype can hold it.
LEMMA FieldKeeps ==
    ASSUME NEW e, e.datatype \in NumberDatatypes, NEW kind, NEW v \in Int,
           ~(e.datatype = "INT16" /\ ~is_signed_kind(kind)),
           InRange(e.datatype, kind, v)
    PROVE  FieldValue(e, kind, v) = v
<1>1. CASE e.datatype \in FloatDatatypes
  BY Zenon, <1>1 DEF FieldValue, FloatDatatypes, IntegerDatatypes
<1>2. CASE e.datatype \in IntegerDatatypes
  <2>. DEFINE b == BaseOf(e.datatype)
  <2>1. b \in Nat \ {0}
    BY Zenon, <1>2, BaseIsPositive
  <2>2. e.datatype \notin FloatDatatypes
    BY Zenon, <1>2, DatatypesApart
  <2>3. IF is_signed_kind(kind) THEN -(b \div 2) <= v /\ v < b \div 2 ELSE 0 <= v /\ v < b
    BY Zenon, <2>2 DEF InRange
  <2>4. FieldValue(e, kind, v) = IF is_signed_kind(kind) THEN safe_cast_signed(v, b)
                                                         ELSE safe_cast_unsigned(v, b)
    BY Zenon, <1>2, <2>2 DEF FieldValue
  <2>. HIDE DEF b
  <2>5. IF is_signed_kind(kind) THEN safe_cast_signed(v, b) = v ELSE v % b = v
    BY Zenon, <2>1, <2>3, CastKeeps
  <2>. QED BY <2>4, <2>5 DEF safe_cast_unsigned
<1>. QED BY Zenon, <1>1, <1>2 DEF NumberDatatypes

\* An element that was accepted, for a reader or a writer.
LEMMA AcceptedElement ==
    ASSUME ModbusInv, mc_phase = "ready", mc_element.datatype # "CONSTANT_VALUE"
    PROVE  /\ mc_element.datatype \in BooleanDatatypes \cup NumberDatatypes
           /\ mc_element.count \in Nat
           /\ mc_element.factor \in Int /\ mc_element.offset \in Int
           /\ mc_use.field.values \subseteq Int
           /\ mc_element.datatype \in FloatDatatypes
                  => mc_element.factor = 1 /\ mc_element.offset = 0
<1>. DEFINE u == mc_use.element
            e == mc_element
            n == number_of_registers_primitive_type(u.datatype)
<1>1. Accepted /\ mc_use \in ModbusUses
  BY Zenon DEF ModbusInv
<1>2. u \in ElementRecords /\ mc_use.field \in FieldRecords
  BY Zenon, <1>1, ModbusUseAssumption
<1>3. /\ e.datatype = ParsedDatatype(u) /\ e.count = ParsedCount(u)
      /\ e.factor = u.factor /\ e.offset = u.offset
  BY Zenon, <1>1 DEF Accepted, Parsed
<1>4. /\ u.datatype \in RegisterDatatypes \cup {"none"} /\ u.count \in Nat
      /\ u.factor \in Int /\ u.offset \in Int
      /\ mc_use.field.values \subseteq Int
  BY Zenon, <1>2 DEF ElementRecords, FieldRecords
<1>5. ~check_for_errors(u)
  BY Zenon, <1>1 DEF Accepted
<1>6. e.datatype = u.datatype /\ u.datatype \in RegisterDatatypes
  BY Zenon, <1>3, <1>4, <1>5 DEF check_for_errors, ParsedDatatype
<1>7. n \in {1, 2, 4}
  BY Zenon, <1>6, RegistersOfAType
<1>8. e.count \in Nat
  BY <1>3, <1>4, <1>7 DEF ParsedCount
<1>9. e.datatype \in FloatDatatypes => e.factor = 1 /\ e.offset = 0
  BY Zenon, <1>1, <1>3, <1>6, ModbusUseAssumption
<1>. QED BY Zenon, <1>3, <1>4, <1>6, <1>8, <1>9 DEF RegisterDatatypes, NumberDatatypes

\* What an accepted element makes of a number that IsExact.
LEMMA AcceptedLinear ==
    ASSUME NEW e, e.factor \in Int, e.offset \in Int, NEW v \in Int,
           e.datatype \in FloatDatatypes => e.factor = 1 /\ e.offset = 0,
           NEW exact \in Nat, IsExact(e, v, exact)
    PROVE  /\ LinearTransformation(e, v, exact) = Linear(e, v)
           /\ Linear(e, v) \in Int
<1>1. Linear(e, v) \in Int
  BY DEF Linear
<1>2. CASE e.datatype \in FloatDatatypes
  <2>1. Linear(e, v) = v
    BY <1>2 DEF Linear
  <2>. QED BY Zenon, <1>1, <1>2, <2>1 DEF LinearTransformation
<1>3. CASE e.datatype \notin FloatDatatypes
  BY Zenon, <1>1, <1>3, LinearIsExact DEF IsExact
<1>. QED BY Zenon, <1>2, <1>3

\* A read gives the numbers the registers hold.
LEMMA ReadAgrees ==
    ASSUME ModbusInv, NEW regs \in RegistersRead, ReadElement(regs)
    PROVE  ModbusValuesAgree'
<1>. DEFINE e == mc_element
            dt == mc_element.datatype
            kind == mc_use.field.kind
            n == number_of_registers_primitive_type(dt)
<1>1. /\ mc_phase = "ready" /\ mc_use.entity = "reader" /\ dt # "CONSTANT_VALUE"
      /\ mc_use' = mc_use /\ mc_element' = mc_element /\ mc_registers' = regs
  BY Zenon DEF ReadElement
<1>2. /\ dt \in BooleanDatatypes \cup NumberDatatypes /\ e.count \in Nat
      /\ e.factor \in Int /\ e.offset \in Int
      /\ dt \in FloatDatatypes => e.factor = 1 /\ e.offset = 0
  BY Zenon, <1>1, AcceptedElement
<1>3. CASE dt \in BooleanDatatypes
  BY Zenon, <1>1, <1>3 DEF ModbusValuesAgree
<1>4. CASE dt \notin BooleanDatatypes
  <2>1. dt \in NumberDatatypes /\ mc_values' = get_float_value(e, kind, regs)
    BY Zenon, <1>2, <1>4 DEF ReadElement
  <2>2. n \in {1, 2, 4}
    BY Zenon, <2>1, NumberRegisters
  <2>3. regs \in [1 .. e.count -> Registers]
    BY Zenon, <1>4 DEF RegistersRead
  <2>5. ASSUME NEW k \in DOMAIN mc_values'
        PROVE  /\ InRange(dt, kind, Linear(e, RegisterSide(k)'))
               /\ IsExact(e, RegisterSide(k)', FloatExact)
               /\ ~(dt = "INT16" /\ ~is_signed_kind(kind))
               => mc_values'[k] = Linear(e, RegisterSide(k)')
    <3>. DEFINE s == Slice(e, regs, k)
                raw == RawValue(e, kind, s)
    <3>1. k \in 1 .. ValueCount(e)
      BY Zenon, <2>1 DEF get_float_value
    <3>2. k \in Nat \ {0} /\ k * n <= e.count
      <4>1. ValueCount(e) = e.count \div n
        BY Zenon DEF ValueCount
      <4>2. CASE n = 1 BY <1>2, <3>1, <4>1, <4>2
      <4>3. CASE n = 2 BY <1>2, <3>1, <4>1, <4>3
      <4>4. CASE n = 4 BY SMTT(30), <1>2, <3>1, <4>1, <4>4
      <4>. QED BY Zenon, <2>2, <4>2, <4>3, <4>4
    <3>3. \A i \in 1 .. n : s[i] = regs[(k - 1) * n + i] /\ (k - 1) * n + i \in 1 .. e.count
      <4>. HIDE DEF n
      <4>1. n = number_of_registers_primitive_type(e.datatype)
        BY Zenon DEF n
      <4>2. e.count \in Nat
        BY Zenon, <1>2
      <4>3. SliceAt(e, n, e.count, regs, k)
        BY <2>1, <2>3, <3>2, <4>1, <4>2, SliceIs, Zenon
      <4>. QED BY Zenon, <4>3 DEF SliceAt
    <3>4. \A i \in 1 .. n : s[i] \in Registers
      BY Zenon, <2>3, <3>3
    <3>5. RegisterSide(k)' = Denoted(dt, kind, s)
      BY Zenon, <1>1 DEF RegisterSide
    <3>6. raw = RegisterSide(k)' /\ raw \in Int
      BY Zenon, <2>1, <3>4, <3>5, ReaderReads
    <3>7. mc_values'[k] = FieldValue(e, kind, LinearTransformation(e, raw, FloatExact))
      BY Zenon, <2>1, <3>1 DEF get_float_value
    <3>. HIDE DEF raw
    <3>8. FloatExact \in Nat
      BY ModbusUseAssumption
    <3>9. IsExact(e, raw, FloatExact) =>
              /\ LinearTransformation(e, raw, FloatExact) = Linear(e, raw)
              /\ Linear(e, raw) \in Int
      BY Zenon, <1>2, <3>6, <3>8, AcceptedLinear
    <3>. QED BY Zenon, <2>1, <3>6, <3>7, <3>9, FieldKeeps
  <2>. QED BY Zenon, <1>1, <2>5 DEF ModbusValuesAgree, FieldSide
<1>. QED BY Zenon, <1>3, <1>4

\* A write leaves the numbers it was given in the registers.
LEMMA WriteAgrees ==
    ASSUME ModbusInv, NEW values \in FieldVectors, WriteElement(values)
    PROVE  ModbusValuesAgree'
<1>. DEFINE e == mc_element
            dt == mc_element.datatype
            kind == mc_use.field.kind
            n == number_of_registers_primitive_type(dt)
<1>1. /\ mc_phase = "ready" /\ mc_use.entity = "writer"
      /\ mc_use' = mc_use /\ mc_element' = mc_element
  BY Zenon DEF WriteElement
<1>. SUFFICES ASSUME ~Overruns(e, values) PROVE ModbusValuesAgree'
  <2>1. Overruns(e, values) => mc_phase' # "ready"
    BY Zenon DEF WriteElement
  <2>. QED BY Zenon, <2>1 DEF ModbusValuesAgree
<1>6. mc_values' = values
  BY Zenon DEF WriteElement
<1>2. dt # "CONSTANT_VALUE"
  BY Zenon, <1>1 DEF ModbusInv, Accepted, check_configuration_consistency
<1>3. /\ dt \in BooleanDatatypes \cup NumberDatatypes /\ e.count \in Nat
      /\ e.factor \in Int /\ e.offset \in Int /\ mc_use.field.values \subseteq Int
      /\ dt \in FloatDatatypes => e.factor = 1 /\ e.offset = 0
  BY Zenon, <1>1, <1>2, AcceptedElement
<1>4. CASE dt \in BooleanDatatypes
  BY Zenon, <1>1, <1>4, <1>6 DEF ModbusValuesAgree
<1>5. CASE dt \notin BooleanDatatypes
  <2>1. dt \in NumberDatatypes /\ mc_registers' = get_registers_value(e, values)
    BY Zenon, <1>3, <1>5 DEF WriteElement
  <2>2. n \in {1, 2, 4}
    BY Zenon, <2>1, NumberRegisters
  <2>3. PICK l \in Nat : values \in [1 .. l -> Int]
    <3>1. PICK l \in 0 .. MaxVector : values \in [1 .. l -> mc_use.field.values]
      BY Zenon DEF FieldVectors, FieldLengths
    <3>2. l \in Nat /\ values \in [1 .. l -> Int]
      BY <1>3, <3>1, ModbusUseAssumption
    <3>. QED BY Zenon, <3>2
  <2>4. Len(values) = l /\ DOMAIN values = 1 .. l
    BY SMTT(30), <2>3
  <2>. DEFINE m == e.count
              v(k) == WrittenValue(e, values[k])
  <2>5. m \in Nat /\ l * n \in Nat /\ l * n <= m
    <3>1. \A k \in 1 .. l : check_correct_value(e, v(k))
      BY Zenon, <1>5, <2>4 DEF WriteElement
    <3>. HIDE DEF v
    <3>2. ValueCount(e) = m \div n
      BY Zenon DEF ValueCount
    <3>3. m \div n \in Nat /\ (l <= m \div n => l * n \in Nat /\ l * n <= m)
      <4>1. CASE n = 1 BY <1>3, <2>3, <4>1
      <4>2. CASE n = 2 BY <1>3, <2>3, <4>2
      <4>3. CASE n = 4 BY SMTT(30), <1>3, <2>3, <4>3
      <4>. QED BY Zenon, <2>2, <4>1, <4>2, <4>3
    <3>4. l > m \div n => \A k \in 1 .. m \div n + 1 : k \in 1 .. l
      BY SMTT(30), <2>3, <3>3
    <3>5. l <= m \div n
      <4>1. ~(l > m \div n)
        BY Zenon, <2>4, <3>1, <3>2, <3>4 DEF Overruns, v
      <4>. QED BY <2>3, <3>3, <4>1
    <3>. QED BY Zenon, <1>3, <3>3, <3>5
  <2>6. mc_registers' = [i \in 1 .. m |-> IF i <= l * n
                                          THEN RegistersOf(e, v((i - 1) \div n + 1))
                                                          [((i - 1) % n) + 1]
                                          ELSE 0]
    BY Zenon, <2>1, <2>4 DEF get_registers_value
  <2>7. ASSUME NEW k \in 1 .. l, InRange(dt, kind, Linear(e, values[k])),
               IsExact(e, values[k], LongDoubleExact)
        PROVE  RegisterSide(k)' = Linear(e, values[k])
    <3>. DEFINE s == Slice(e, mc_registers', k)
                S == {mc_registers'[i] : i \in 1 .. m}
    <3>1. k \in Nat \ {0} /\ k * n <= l * n
      <4>1. CASE n = 1 BY <2>3, <4>1
      <4>2. CASE n = 2 BY <2>3, <4>2
      <4>3. CASE n = 4 BY SMTT(30), <2>3, <4>3
      <4>. QED BY Zenon, <2>2, <4>1, <4>2, <4>3
    <3>2. mc_registers' \in [1 .. m -> S]
      BY ZenonT(30), <2>6
    <3>3. ASSUME NEW i \in 1 .. n
          PROVE  s[i] = RegistersOf(e, v(k))[i]
      <4>1. s[i] = mc_registers'[(k - 1) * n + i] /\ (k - 1) * n + i \in 1 .. m
        <5>. HIDE DEF n, m, S
        <5>1. k * n <= m
          <6>1. k * n \in Int /\ l * n \in Int
            BY <2>2, <2>3, <3>1
          <6>. QED BY <2>5, <3>1, <6>1
        <5>2. n = number_of_registers_primitive_type(e.datatype)
          BY Zenon DEF n
        <5>3. SliceAt(e, n, m, mc_registers', k)
          BY <2>1, <2>5, <3>1, <3>2, <5>1, <5>2, SliceIs, Zenon
        <5>. QED BY Zenon, <5>3 DEF SliceAt
      <4>2. (k - 1) * n + i <= l * n
        <5>1. CASE n = 1 BY <2>3, <3>1, <5>1
        <5>2. CASE n = 2 BY <2>3, <3>1, <5>2
        <5>3. CASE n = 4 BY SMTT(30), <2>3, <3>1, <5>3
        <5>. QED BY Zenon, <2>2, <5>1, <5>2, <5>3
      <4>3. /\ ((((k - 1) * n + i) - 1) \div n) + 1 = k
            /\ ((((k - 1) * n + i) - 1) % n) + 1 = i
        <5>1. CASE n = 1 BY <3>1, <5>1
        <5>2. CASE n = 2 BY <3>1, <5>2
        <5>3. CASE n = 4 BY <3>1, <5>3
        <5>. QED BY Zenon, <2>2, <5>1, <5>2, <5>3
      <4>. QED BY Zenon, <2>6, <4>1, <4>2, <4>3
    <3>4. RegisterSide(k)' = Denoted(dt, kind, s)
      BY Zenon, <1>1 DEF RegisterSide
    <3>5. Denoted(dt, kind, s) = Denoted(dt, kind, RegistersOf(e, v(k)))
      BY <2>1, <3>3, SameRegisters
    <3>6. LongDoubleExact \in Nat /\ values[k] \in Int
      <4>1. LongDoubleExact \in Nat
        BY ModbusUseAssumption
      <4>. QED BY Zenon, <2>3, <4>1
    <3>7. v(k) = Linear(e, values[k]) /\ v(k) \in Int
      BY Zenon, <1>3, <2>7, <3>6, AcceptedLinear DEF WrittenValue
    <3>. QED BY Zenon, <2>1, <2>7, <3>4, <3>5, <3>7, WriterDenotes
  <2>. QED BY Zenon, <1>1, <1>6, <2>4, <2>7 DEF ModbusValuesAgree, FieldSide
<1>. QED BY <1>4, <1>5

\* Every step keeps that registers and values agree.
LEMMA ModbusAgreesNext ==
    ASSUME ModbusInv, ModbusValuesAgree, [ModbusConfigurationNext]_mcvars
    PROVE  ModbusValuesAgree'
<1>1. CASE ConfigureStream
  <2>1. mc_values' = <<>>
    BY <1>1 DEF ConfigureStream, ModbusInv
  <2>2. DOMAIN mc_values' = {}
    BY <2>1
  <2>. QED BY Zenon, <2>2 DEF ModbusValuesAgree
<1>2. ASSUME NEW regs \in RegistersRead, ReadElement(regs) PROVE ModbusValuesAgree'
  BY Zenon, <1>2, ReadAgrees
<1>3. ASSUME NEW values \in FieldVectors, WriteElement(values) PROVE ModbusValuesAgree'
  BY SMTT(30), <1>3, WriteAgrees
<1>4. CASE UNCHANGED mcvars
  BY Zenon, <1>4 DEF mcvars, ModbusValuesAgree, RegisterSide, FieldSide
<1>. QED BY Zenon, <1>1, <1>2, <1>3, <1>4 DEF ModbusConfigurationNext

\* What an accepted element transfers is the linear transformation of the
\* number on the other side, as long as that stays in the range in which the
\* stream's floating point type is exact and a sequence has no more values
\* than the element, for elements and fields of any size, in every datatype
\* and byte order (int16_to_int32 ... int64_to_int16, swap_float_*,
\* get_float_value, get_registers_value).
THEOREM ValuesAgree == ModbusConfigurationSpec => []ModbusValuesAgree
<1>1. ModbusConfigurationInit => ModbusInv /\ ModbusValuesAgree
  BY Zenon DEF ModbusConfigurationInit, ModbusInv, ModbusValuesAgree
<1>2. ModbusInv /\ ModbusValuesAgree /\ [ModbusConfigurationNext]_mcvars
          => ModbusInv' /\ ModbusValuesAgree'
  BY ModbusInvNext, ModbusAgreesNext
<1>. QED BY <1>1, <1>2, PTL DEF ModbusConfigurationSpec

=============================================================================
