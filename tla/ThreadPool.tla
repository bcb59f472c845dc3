----------------------------- MODULE ThreadPool -----------------------------
(***************************************************************************)
(* Requests and the work they wait for in one pool of threads.  request()  *)
(* gives the script to Nan::AsyncQueueWorker (node_php_embed.cc:304), that *)
(* is to a thread of libuv, which it holds until the script ends.  What    *)
(* the script calls with a Js\Wait is work of the same pool when it is     *)
(* fs.readFile, README.md's example.                                       *)
(***************************************************************************)
EXTENDS Naturals, Sequences, FiniteSets

CONSTANTS Request, Threads

VARIABLES
  queue,  \* the work no thread has taken, in order
  busy,   \* the work on a thread
  script  \* how far each request is
vars == <<queue, busy, script>>

\* The script of a request, and the file it reads.
Script(r) == <<"script", r>>
File(r) == <<"file", r>>
Work == {Script(r) : r \in Request} \cup {File(r) : r \in Request}

TypeOK ==
  /\ queue \in Seq(Work) /\ busy \in SUBSET Work
  /\ script \in [Request -> {"new", "submitted", "running", "waiting", "resumed", "done"}]

Init == queue = <<>> /\ busy = {} /\ script = [r \in Request |-> "new"]

\* php.request(): uv_queue_work.
Submit(r) ==
  /\ script[r] = "new"
  /\ queue' = Append(queue, Script(r))
  /\ script' = [script EXCEPT ![r] = "submitted"]
  /\ UNCHANGED busy

\* A free thread takes the oldest work; a script starts on it.
Take ==
  /\ queue # <<>> /\ Cardinality(busy) < Threads
  /\ busy' = busy \cup {Head(queue)} /\ queue' = Tail(queue)
  /\ script' = [r \in Request |-> IF Head(queue) = Script(r) THEN "running" ELSE script[r]]

\* $fs.readFile(..., new Js\Wait): node queues the work, the thread of PHP waits.
ReadFile(r) ==
  /\ script[r] = "running"
  /\ queue' = Append(queue, File(r))
  /\ script' = [script EXCEPT ![r] = "waiting"]
  /\ UNCHANGED busy

\* The file is read; node calls the callback, and the script goes on.
FileRead(r) ==
  /\ File(r) \in busy
  /\ busy' = busy \ {File(r)}
  /\ script' = [script EXCEPT ![r] = "resumed"]
  /\ UNCHANGED queue

\* The script ends, and its thread is free.
End(r) ==
  /\ script[r] = "resumed"
  /\ busy' = busy \ {Script(r)}
  /\ script' = [script EXCEPT ![r] = "done"]
  /\ UNCHANGED queue

Next == Take \/ \E r \in Request : Submit(r) \/ ReadFile(r) \/ FileRead(r) \/ End(r)

\* The threads of the pool run, and so do the scripts.
Fairness ==
  /\ WF_vars(Take)
  /\ \A r \in Request : WF_vars(ReadFile(r)) /\ WF_vars(FileRead(r)) /\ WF_vars(End(r))
Spec == Init /\ [][Next]_vars /\ Fairness

\* Js\Wait "would invoke the fs.readFile method asynchronously in the node
\* context, but block the PHP thread until its callback was invoked"
\* (README.md:156): the callback is invoked, and the request ends.
RequestsEnd == \A r \in Request : script[r] = "submitted" ~> script[r] = "done"
=============================================================================
