-------------------------- MODULE ProdutorConsumidor --------------------------
(***************************************************************************)
(* lab6/produtor_consumidor.c and produtor_consumidor2.c: threads that     *)
(* share a ring buffer under one mutex, with a condition variable for      *)
(* "not full" and one for "not empty".  The two programs differ in their   *)
(* constants only (1 producer and 1 consumer, 2 and 4); NUM_PROD and       *)
(* NUM_CONS are chosen in the initial state and never change, so that one  *)
(* specification has every such program among its behaviours.              *)
(*                                                                         *)
(* Everything shared is read and written with the mutex held, so that what *)
(* a thread does from the moment it gets the mutex to the moment it        *)
(* releases it, by unlocking or by waiting, is one action.  The item that  *)
(* producer p produces in its i-th iteration is <<p, i>>.                  *)
(***************************************************************************)
EXTENDS Integers, Sequences, FiniteSets

CONSTANTS
  MaxProd, MaxCons,  \* bounds on the numbers of threads
  MAXFILA, MAXNUM

ASSUME ThreadsAssumption == {MaxProd, MaxCons} \subseteq Nat \ {0}
ASSUME SizesAssumption == {MAXFILA, MAXNUM} \subseteq Nat \ {0}

Produtores == {<<"prod", n>> : n \in 1..MaxProd}
Consumidores == {<<"cons", n>> : n \in 1..MaxCons}
Threads == Produtores \cup Consumidores
Items == Produtores \X (0..MAXNUM - 1)
Slots == 0..MAXFILA - 1
NoItem == <<>>

VARIABLES
  NUM_PROD, NUM_CONS,
  fila, fim_da_fila, inicio_da_fila, qtd_na_fila,
  produtor_terminado, consumidor_terminado,
  fila_nao_cheia,   \* threads that wait on this condition variable
  fila_nao_vazia,   \* and on this one
  pc,               \* "loop", "terminado" (last section), "fim", "abortado"; "none": no such thread
  i,                \* the loop variable of each thread
  produzidos,       \* history: items put in the queue
  consumidos        \* history: items taken, in the order they were taken

numbers == <<NUM_PROD, NUM_CONS>>
ring == <<fila, fim_da_fila, inicio_da_fila, qtd_na_fila>>
flags == <<produtor_terminado, consumidor_terminado>>
waits == <<fila_nao_cheia, fila_nao_vazia>>
vars == <<numbers, ring, flags, waits, pc, i, produzidos, consumidos>>

Created(t) == t[2] <= (IF t[1] = "prod" THEN NUM_PROD ELSE NUM_CONS)

PCInit ==
  /\ NUM_PROD \in 1..MaxProd /\ NUM_CONS \in 1..MaxCons
  /\ fila = [k \in Slots |-> NoItem]
  /\ fim_da_fila = 0 /\ inicio_da_fila = 0 /\ qtd_na_fila = 0
  /\ produtor_terminado = 0 /\ consumidor_terminado = 0
  /\ fila_nao_cheia = {} /\ fila_nao_vazia = {}
  /\ pc = [t \in Threads |-> IF Created(t) THEN "loop" ELSE "none"]
  /\ i = [t \in Threads |-> 0]
  /\ produzidos = {} /\ consumidos = <<>>

------------------------------------------------------------------------------
\* The sets of waiting threads a signal, and a broadcast, may leave.
AfterSignal(waiting) == IF waiting = {} THEN {{}} ELSE {waiting \ {t} : t \in waiting}
AfterBroadcast_none(waiting) == waiting
AfterBroadcast(waiting) == {}

\* A thread that has the mutex: it is in its loop and waits for no condition.
Runs(t) == pc[t] = "loop" /\ t \notin fila_nao_cheia \cup fila_nao_vazia
End(t, where) == pc' = [pc EXCEPT ![t] = where]
NextTurn(t) ==
  /\ i' = [i EXCEPT ![t] = @ + 1]
  /\ pc' = IF i[t] + 1 < MAXNUM THEN pc ELSE [pc EXCEPT ![t] = "terminado"]

Full_overrun == qtd_na_fila > MAXFILA
Full == qtd_na_fila = MAXFILA
NothingToCome_early == produtor_terminado > 0
NothingToCome == produtor_terminado = NUM_PROD
NobodyToTake_early == consumidor_terminado > 0
NobodyToTake == consumidor_terminado = NUM_CONS

\* The queue is full and nobody is left to take from it.
Aborta(p) ==
  /\ Runs(p) /\ Full /\ NobodyToTake
  /\ End(p, "abortado")
  /\ UNCHANGED <<numbers, ring, flags, waits, i, produzidos, consumidos>>

EsperaVaga(p) ==
  /\ Runs(p) /\ Full /\ ~NobodyToTake
  /\ fila_nao_cheia' = fila_nao_cheia \cup {p}
  /\ UNCHANGED <<numbers, ring, flags, fila_nao_vazia, pc, i, produzidos, consumidos>>

Produz(p) ==
  /\ Runs(p) /\ ~Full
  /\ fila' = [fila EXCEPT ![fim_da_fila] = <<p, i[p]>>]
  /\ fim_da_fila' = (fim_da_fila + 1) % MAXFILA
  /\ qtd_na_fila' = qtd_na_fila + 1
  /\ fila_nao_vazia' \in AfterSignal(fila_nao_vazia)
  /\ NextTurn(p)
  /\ produzidos' = produzidos \cup {<<p, i[p]>>}
  /\ UNCHANGED <<numbers, inicio_da_fila, flags, fila_nao_cheia, consumidos>>

TerminaProdutor(p) ==
  /\ pc[p] = "terminado"
  /\ produtor_terminado' = produtor_terminado + 1
  /\ fila_nao_vazia' = AfterBroadcast(fila_nao_vazia)
  /\ End(p, "fim")
  /\ UNCHANGED <<numbers, ring, consumidor_terminado, fila_nao_cheia, i, produzidos, consumidos>>

produtor(p) == Aborta(p) \/ EsperaVaga(p) \/ Produz(p) \/ TerminaProdutor(p)

------------------------------------------------------------------------------
EsperaItem(c) ==
  /\ Runs(c) /\ qtd_na_fila = 0 /\ ~NothingToCome
  /\ fila_nao_vazia' = fila_nao_vazia \cup {c}
  /\ UNCHANGED <<numbers, ring, flags, fila_nao_cheia, pc, i, produzidos, consumidos>>

\* The queue is empty and nobody is left to fill it.
Desiste(c) ==
  /\ Runs(c) /\ qtd_na_fila = 0 /\ NothingToCome
  /\ End(c, "terminado")
  /\ UNCHANGED <<numbers, ring, flags, waits, i, produzidos, consumidos>>

Consome_semAviso(c) ==
  /\ Runs(c) /\ qtd_na_fila > 0
  /\ consumidos' = Append(consumidos, fila[inicio_da_fila])
  /\ inicio_da_fila' = (inicio_da_fila + 1) % MAXFILA
  /\ qtd_na_fila' = qtd_na_fila - 1
  /\ NextTurn(c)
  /\ UNCHANGED <<numbers, fila, fim_da_fila, flags, waits, produzidos>>

Consome(c) ==
  /\ Runs(c) /\ qtd_na_fila > 0
  /\ consumidos' = Append(consumidos, fila[inicio_da_fila])
  /\ inicio_da_fila' = (inicio_da_fila + 1) % MAXFILA
  /\ qtd_na_fila' = qtd_na_fila - 1
  /\ fila_nao_cheia' \in AfterSignal(fila_nao_cheia)
  /\ NextTurn(c)
  /\ UNCHANGED <<numbers, fila, fim_da_fila, flags, fila_nao_vazia, produzidos>>

TerminaConsumidor(c) ==
  /\ pc[c] = "terminado"
  /\ consumidor_terminado' = consumidor_terminado + 1
  /\ fila_nao_cheia' = AfterBroadcast(fila_nao_cheia)
  /\ End(c, "fim")
  /\ UNCHANGED <<numbers, ring, produtor_terminado, fila_nao_vazia, i, produzidos, consumidos>>

consumidor(c) == EsperaItem(c) \/ Desiste(c) \/ Consome(c) \/ TerminaConsumidor(c)

------------------------------------------------------------------------------
\* pthread_cond_wait may return although nobody signalled.
SpuriousWakeup(t) ==
  /\ t \in fila_nao_cheia \cup fila_nao_vazia
  /\ fila_nao_cheia' = fila_nao_cheia \ {t}
  /\ fila_nao_vazia' = fila_nao_vazia \ {t}
  /\ UNCHANGED <<numbers, ring, flags, pc, i, produzidos, consumidos>>

Ended == \A t \in Threads : pc[t] \in {"fim", "abortado", "none"}

PCNext ==
  \/ \E p \in Produtores : produtor(p)
  \/ \E c \in Consumidores : consumidor(c)
  \/ \E t \in Threads : SpuriousWakeup(t)
  \/ Ended /\ UNCHANGED vars

\* A thread that can take the mutex takes it in the end; no wake-up is spurious
\* out of fairness.
PCFairness == /\ \A p \in Produtores : WF_vars(produtor(p))
              /\ \A c \in Consumidores : WF_vars(consumidor(c))

PCSpec == PCInit /\ [][PCNext]_vars /\ PCFairness

------------------------------------------------------------------------------
\* The counters and indices stay in range, and a thread waits for one condition
\* at most, the one of its kind.
PCTypeOK ==
  /\ NUM_PROD \in 1..MaxProd /\ NUM_CONS \in 1..MaxCons
  /\ fila \in [Slots -> Items \cup {NoItem}]
  /\ {fim_da_fila, inicio_da_fila} \subseteq Slots
  /\ qtd_na_fila \in 0..MAXFILA
  /\ produtor_terminado \in 0..NUM_PROD /\ consumidor_terminado \in 0..NUM_CONS
  /\ fila_nao_cheia \subseteq Produtores /\ fila_nao_vazia \subseteq Consumidores
  /\ pc \in [Threads -> {"loop", "terminado", "fim", "abortado", "none"}]
  /\ i \in [Threads -> 0..MAXNUM]
  /\ produzidos \subseteq Items /\ consumidos \in Seq(Items)

\* What is in the ring, from the oldest item to the newest.
Contents == [k \in 1..qtd_na_fila |-> fila[(inicio_da_fila + k - 1) % MAXFILA]]

Fifo == INSTANCE BoundedFifo WITH
  Capacity <- MAXFILA, queue <- Contents, put <- produzidos, taken <- consumidos

\* The ring and its three counters are a bounded FIFO: no item is lost,
\* overwritten or taken twice, whatever the wake-ups, spurious ones included
\* (produtor_consumidor.c:66-69, :102-106).
ImplementsFifo == Fifo!FifoSpec

\* No thread leaves work that another would still have done: a consumer that
\* gives up before its MAXNUM items leaves no item behind (:96-100), and a
\* producer aborts only when every consumer has taken its MAXNUM (:56-61).
NothingLeftBehind ==
  /\ Ended => \/ qtd_na_fila = 0
              \/ \A c \in Consumidores : pc[c] = "none" \/ i[c] = MAXNUM
  /\ \A p \in Produtores : pc[p] = "abortado" =>
       \A c \in Consumidores : pc[c] = "none" \/ i[c] = MAXNUM

\* Every thread ends, although a signal wakes one thread that may find its
\* condition false again, and producers and consumers end in any order.
EveryThreadEnds == <>Ended
=============================================================================
