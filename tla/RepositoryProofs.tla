-------------------------- MODULE RepositoryProofs --------------------------
(***************************************************************************)
(* Proofs about what the session repository serves: the saved services     *)
(* with their secrets and cards (ServiceStore, ServiceCards), for any      *)
(* services, processes and references and any number of operations and     *)
(* crashes; and the playback history (GlobalHistory), for any titles, any  *)
(* history it begins with, any size of a page and number of playbacks.     *)
(***************************************************************************)
EXTENDS GlobalHistory, ServiceCards, SubsequenceLemmas, FiniteSetTheorems, FunctionTheorems, SequenceTheorems, TLAPS

-----------------------------------------------------------------------------
(* The services.  Programs: which step comes after which *)

Step ==
    {"queue", "readOld", "protectOld", "replace", "unlist", "select", "drain", "discard", "free", "resolve",
     "save", "login", "protect", "insert", "forget", "clear", "hide", "hideOld", "delete", "mark", "look",
     "move", "refresh"}

Follows(a, b) ==
    /\ (a = "unlist") = (b = "select")
    /\ (a = "select") = (b = "drain")
    /\ (a = "protect") = (b = "insert")
    /\ (a = "protectOld") = (b = "replace")
    /\ (a = "look") = (b = "move")

Program(s) ==
    /\ s \in Seq(Step)
    /\ \A i \in 1 .. Len(s) : Follows(s[i], IF i < Len(s) THEN s[i + 1] ELSE "end")

\* What can be put behind any program.
Opens(s) == s # <<>> => s[1] \notin {"select", "drain", "insert", "replace", "move"}
Block(s) == Program(s) /\ Opens(s)

\* The steps that need a service to save, and one to remove the session of.
NewSteps == {"save", "protect", "insert"}
OldSteps == {"clear", "delete"}
Avoids(s, N) == \A i \in 1 .. Len(s) : s[i] \notin N

LEMMA Joined ==
    ASSUME NEW a, NEW b, Block(a), Block(b)
    PROVE  /\ Block(a \o b)
           /\ \A N : Avoids(a, N) /\ Avoids(b, N) => Avoids(a \o b, N)
           /\ a # <<>> => a \o b # <<>> /\ (a \o b)[1] = a[1]
<1> DEFINE m == Len(a)
           n == Len(b)
           s == a \o b
           l == Len(s)
<1>1. a \in Seq(Step) /\ b \in Seq(Step)
  BY DEF Block, Program
<1>2. /\ m \in Nat /\ n \in Nat /\ s \in Seq(Step) /\ l = m + n
      /\ \A i \in 1 .. m + n : s[i] = IF i <= m THEN a[i] ELSE b[i - m]
  BY <1>1, LenProperties, ConcatProperties
<1>3. /\ a = <<>> <=> m = 0
      /\ b = <<>> <=> n = 0
      /\ s = <<>> <=> l = 0
  BY <1>1, <1>2, EmptySeq
<1>4. /\ \A i \in 1 .. m : Follows(a[i], IF i < m THEN a[i + 1] ELSE "end")
      /\ \A i \in 1 .. n : Follows(b[i], IF i < n THEN b[i + 1] ELSE "end")
      /\ m # 0 => a[1] \notin {"select", "drain", "insert", "replace", "move"}
      /\ n # 0 => b[1] \notin {"select", "drain", "insert", "replace", "move"}
  BY <1>3 DEF Block, Program, Opens
<1>5. \A N : /\ Avoids(a, N) <=> \A i \in 1 .. m : a[i] \notin N
             /\ Avoids(b, N) <=> \A i \in 1 .. n : b[i] \notin N
             /\ Avoids(s, N) <=> \A i \in 1 .. l : s[i] \notin N
  BY DEF Avoids
<1>6. /\ Program(s) <=> \A i \in 1 .. l : Follows(s[i], IF i < l THEN s[i + 1] ELSE "end")
      /\ Opens(s) <=> (l # 0 => s[1] \notin {"select", "drain", "insert", "replace", "move"})
  BY <1>2, <1>3 DEF Program, Opens
<1>. HIDE DEF m, n, s, l
<1>7. ASSUME NEW i \in 1 .. l
      PROVE  Follows(s[i], IF i < l THEN s[i + 1] ELSE "end")
  <2>1. CASE i < m
    <3>1. i \in 1 .. m /\ i + 1 \in 1 .. m /\ i < l /\ i + 1 \in 1 .. m + n /\ i \in 1 .. m + n
      BY <1>2, <2>1
    <3>. QED  BY <1>2, <1>4, <2>1, <3>1
  <2>2. CASE i = m
    <3>1. i \in 1 .. m /\ s[i] = a[i] /\ Follows(a[i], "end")
      BY <1>2, <1>4, <2>2
    <3>2. CASE n = 0
      BY <1>2, <2>2, <3>1, <3>2
    <3>3. CASE n # 0
      <4>1. i < l /\ i + 1 \in 1 .. m + n /\ s[i + 1] = b[1]
        BY <1>2, <2>2, <3>1, <3>3
      <4>. QED  BY <1>4, <3>1, <3>3, <4>1 DEF Follows
    <3>. QED  BY <3>2, <3>3
  <2>3. CASE i > m
    <3>1. i - m \in 1 .. n /\ s[i] = b[i - m] /\ (i < l <=> i - m < n)
      BY <1>2, <2>3
    <3>2. i < l => s[i + 1] = b[(i - m) + 1]
      <4>1. i < l => i + 1 \in 1 .. m + n /\ ~(i + 1 <= m) /\ (i + 1) - m = (i - m) + 1
        BY <1>2, <2>3
      <4>. QED  BY <1>2, <4>1
    <3>. QED  BY <1>4, <3>1, <3>2
  <2>. QED  BY <1>2, <2>1, <2>2, <2>3
<1>8. Opens(s)
  <2>1. CASE m # 0
    BY <1>2, <1>4, <1>6, <2>1
  <2>2. CASE m = 0
    BY <1>2, <1>4, <1>6, <2>2
  <2>. QED  BY <2>1, <2>2
<1>9. ASSUME NEW N, Avoids(a, N), Avoids(b, N)
      PROVE  Avoids(s, N)
  <2>1. ASSUME NEW i \in 1 .. l PROVE s[i] \notin N
    <3>1. CASE i <= m
      BY <1>2, <1>5, <1>9, <3>1
    <3>2. CASE ~(i <= m)
      <4>1. i - m \in 1 .. n
        BY <1>2, <3>2
      <4>. QED  BY <1>2, <1>5, <1>9, <3>2, <4>1
    <3>. QED  BY <3>1, <3>2
  <2>. QED  BY <1>5, <2>1
<1>10. m # 0 => l # 0 /\ s[1] = a[1]
  BY <1>2
<1>. QED  BY <1>3, <1>6, <1>7, <1>8, <1>9, <1>10 DEF Block, s, m, n, l

LEMMA Pieces ==
    /\ Block(<<>>) /\ \A N : Avoids(<<>>, N)
    /\ Block(Collect) /\ Avoids(Collect, NewSteps) /\ Avoids(Collect, OldSteps) /\ Collect # <<>>
    /\ Block(<<"queue", "readOld">>) /\ Avoids(<<"queue", "readOld">>, NewSteps) /\ Avoids(<<"queue", "readOld">>, OldSteps)
    /\ Block(<<"protectOld", "replace">>) /\ Avoids(<<"protectOld", "replace">>, NewSteps) /\ Avoids(<<"protectOld", "replace">>, OldSteps)
    /\ Block(<<"forget", "clear">>) /\ Avoids(<<"forget", "clear">>, NewSteps)
    /\ Block(<<"mark", "refresh">>) /\ Avoids(<<"mark", "refresh">>, NewSteps) /\ Avoids(<<"mark", "refresh">>, OldSteps)
    /\ Block(<<"hide", "refresh">>) /\ Avoids(<<"hide", "refresh">>, NewSteps) /\ Avoids(<<"hide", "refresh">>, OldSteps)
    /\ Block(<<"free", "save">>) /\ Avoids(<<"free", "save">>, OldSteps)
    /\ Block(<<"resolve", "forget", "clear">>) /\ Avoids(<<"resolve", "forget", "clear">>, NewSteps)
    /\ Block(<<"resolve", "look", "move">>) /\ Avoids(<<"resolve", "look", "move">>, NewSteps) /\ Avoids(<<"resolve", "look", "move">>, OldSteps)
    /\ Block(<<"look", "move", "refresh">>) /\ Avoids(<<"look", "move", "refresh">>, NewSteps) /\ Avoids(<<"look", "move", "refresh">>, OldSteps)
    /\ Block(<<"resolve", "free", "save">>) /\ Avoids(<<"resolve", "free", "save">>, OldSteps)
    /\ Block(<<"login", "protect", "insert">>) /\ Avoids(<<"login", "protect", "insert">>, OldSteps)
    /\ Block(<<"resolve", "login", "protect", "insert">>) /\ Avoids(<<"resolve", "login", "protect", "insert">>, OldSteps)
    /\ \A x \in {"hide", "hideOld", "refresh", "forget", "delete", "resolve", "discard", "save"} :
          /\ Block(<<x>>)
          /\ x # "save" => Avoids(<<x>>, NewSteps)
          /\ x # "delete" => Avoids(<<x>>, OldSteps)
<1>1. <<>> \in Seq(Step) /\ Len(<<>>) = 0
  BY EmptySeq
<1>2. Block(<<>>) /\ \A N : Avoids(<<>>, N)
  BY <1>1 DEF Block, Program, Opens, Avoids
<1>3. ASSUME NEW x \in Step, x \notin {"unlist", "select", "drain", "protect", "insert", "protectOld", "replace", "look", "move"}
      PROVE  Block(<<x>>) /\ \A N : x \notin N => Avoids(<<x>>, N)
  <2>1. <<x>> \in Seq(Step) /\ Len(<<x>>) = 1 /\ <<x>>[1] = x
    OBVIOUS
  <2>. QED  BY <1>3, <2>1 DEF Block, Program, Opens, Follows, Avoids
<1>4. ASSUME NEW x \in Step, NEW y \in Step,
             Follows(x, y), Follows(y, "end"),
             x \notin {"select", "drain", "insert", "replace", "move"}
      PROVE  /\ Block(<<x, y>>)
             /\ \A N : x \notin N /\ y \notin N => Avoids(<<x, y>>, N)
  <2> DEFINE s == <<x, y>>
  <2>1. s \in Seq(Step) /\ Len(s) = 2 /\ s[1] = x /\ s[2] = y
    OBVIOUS
  <2>. HIDE DEF s
  <2>2. \A i \in 1 .. 2 : i = 1 \/ i = 2
    OBVIOUS
  <2>3. Block(s)
    BY <1>4, <2>1, <2>2 DEF Block, Program, Opens
  <2>4. \A N : x \notin N /\ y \notin N => Avoids(s, N)
    BY <2>1, <2>2 DEF Avoids
  <2>. QED  BY <2>3, <2>4 DEF s
<1>5. ASSUME NEW x \in Step, NEW y \in Step, NEW z \in Step,
             Follows(x, y), Follows(y, z), Follows(z, "end"),
             x \notin {"select", "drain", "insert", "replace", "move"}
      PROVE  /\ Block(<<x, y, z>>)
             /\ \A N : x \notin N /\ y \notin N /\ z \notin N => Avoids(<<x, y, z>>, N)
  <2> DEFINE s == <<x, y, z>>
  <2>1. s \in Seq(Step) /\ Len(s) = 3 /\ s[1] = x /\ s[2] = y /\ s[3] = z
    OBVIOUS
  <2>. HIDE DEF s
  <2>2. \A i \in 1 .. 3 : i = 1 \/ i = 2 \/ i = 3
    OBVIOUS
  <2>3. Block(s)
    BY <1>5, <2>1, <2>2 DEF Block, Program, Opens
  <2>4. \A N : x \notin N /\ y \notin N /\ z \notin N => Avoids(s, N)
    BY <2>1, <2>2 DEF Avoids
  <2>. QED  BY <2>3, <2>4 DEF s
<1>6. ASSUME NEW x \in Step, NEW y \in Step, NEW z \in Step, NEW w \in Step,
             Follows(x, y), Follows(y, z), Follows(z, w), Follows(w, "end"),
             x \notin {"select", "drain", "insert", "replace", "move"}
      PROVE  /\ Block(<<x, y, z, w>>)
             /\ \A N : x \notin N /\ y \notin N /\ z \notin N /\ w \notin N => Avoids(<<x, y, z, w>>, N)
  <2> DEFINE s == <<x, y, z, w>>
  <2>1. s \in Seq(Step) /\ Len(s) = 4 /\ s[1] = x /\ s[2] = y /\ s[3] = z /\ s[4] = w
    OBVIOUS
  <2>. HIDE DEF s
  <2>2. \A i \in 1 .. 4 : i = 1 \/ i = 2 \/ i = 3 \/ i = 4
    OBVIOUS
  <2>3. Block(s)
    BY <1>6, <2>1, <2>2 DEF Block, Program, Opens
  <2>4. \A N : x \notin N /\ y \notin N /\ z \notin N /\ w \notin N => Avoids(s, N)
    BY <2>1, <2>2 DEF Avoids
  <2>. QED  BY <2>3, <2>4 DEF s
<1>7. Block(Collect) /\ Avoids(Collect, NewSteps) /\ Avoids(Collect, OldSteps) /\ Collect # <<>>
  <2>1. Block(<<"unlist", "select", "drain">>) /\ Avoids(<<"unlist", "select", "drain">>, NewSteps) /\ Avoids(<<"unlist", "select", "drain">>, OldSteps)
    <3>1. "unlist" \in Step /\ "select" \in Step /\ "drain" \in Step
      BY DEF Step
    <3>2. Follows("unlist", "select") /\ Follows("select", "drain") /\ Follows("drain", "end")
      BY DEF Follows
    <3>3. "unlist" \notin NewSteps /\ "select" \notin NewSteps /\ "drain" \notin NewSteps /\ "unlist" \notin OldSteps /\ "select" \notin OldSteps /\ "drain" \notin OldSteps
      BY DEF NewSteps, OldSteps
    <3>. QED  BY <1>5, <3>1, <3>2, <3>3
  <2>. QED  BY <2>1 DEF Collect
<1>8. /\ Block(<<"queue", "readOld">>) /\ Avoids(<<"queue", "readOld">>, NewSteps) /\ Avoids(<<"queue", "readOld">>, OldSteps)
      /\ Block(<<"protectOld", "replace">>) /\ Avoids(<<"protectOld", "replace">>, NewSteps) /\ Avoids(<<"protectOld", "replace">>, OldSteps)
      /\ Block(<<"forget", "clear">>) /\ Avoids(<<"forget", "clear">>, NewSteps)
      /\ Block(<<"mark", "refresh">>) /\ Avoids(<<"mark", "refresh">>, NewSteps) /\ Avoids(<<"mark", "refresh">>, OldSteps)
      /\ Block(<<"hide", "refresh">>) /\ Avoids(<<"hide", "refresh">>, NewSteps) /\ Avoids(<<"hide", "refresh">>, OldSteps)
      /\ Block(<<"free", "save">>) /\ Avoids(<<"free", "save">>, OldSteps)
  <2>1. Block(<<"queue", "readOld">>) /\ Avoids(<<"queue", "readOld">>, NewSteps) /\ Avoids(<<"queue", "readOld">>, OldSteps)
    <3>1. "queue" \in Step /\ "readOld" \in Step
      BY DEF Step
    <3>2. Follows("queue", "readOld") /\ Follows("readOld", "end")
      BY DEF Follows
    <3>3. "queue" \notin NewSteps /\ "readOld" \notin NewSteps /\ "queue" \notin OldSteps /\ "readOld" \notin OldSteps
      BY DEF NewSteps, OldSteps
    <3>. QED  BY <1>4, <3>1, <3>2, <3>3
  <2>2. Block(<<"protectOld", "replace">>) /\ Avoids(<<"protectOld", "replace">>, NewSteps) /\ Avoids(<<"protectOld", "replace">>, OldSteps)
    <3>1. "protectOld" \in Step /\ "replace" \in Step
      BY DEF Step
    <3>2. Follows("protectOld", "replace") /\ Follows("replace", "end")
      BY DEF Follows
    <3>3. "protectOld" \notin NewSteps /\ "replace" \notin NewSteps /\ "protectOld" \notin OldSteps /\ "replace" \notin OldSteps
      BY DEF NewSteps, OldSteps
    <3>. QED  BY <1>4, <3>1, <3>2, <3>3
  <2>3. Block(<<"forget", "clear">>) /\ Avoids(<<"forget", "clear">>, NewSteps)
    <3>1. "forget" \in Step /\ "clear" \in Step
      BY DEF Step
    <3>2. Follows("forget", "clear") /\ Follows("clear", "end")
      BY DEF Follows
    <3>3. "forget" \notin NewSteps /\ "clear" \notin NewSteps
      BY DEF NewSteps, OldSteps
    <3>. QED  BY <1>4, <3>1, <3>2, <3>3
  <2>4. Block(<<"mark", "refresh">>) /\ Avoids(<<"mark", "refresh">>, NewSteps) /\ Avoids(<<"mark", "refresh">>, OldSteps)
    <3>1. "mark" \in Step /\ "refresh" \in Step
      BY DEF Step
    <3>2. Follows("mark", "refresh") /\ Follows("refresh", "end")
      BY DEF Follows
    <3>3. "mark" \notin NewSteps /\ "refresh" \notin NewSteps /\ "mark" \notin OldSteps /\ "refresh" \notin OldSteps
      BY DEF NewSteps, OldSteps
    <3>. QED  BY <1>4, <3>1, <3>2, <3>3
  <2>5. Block(<<"hide", "refresh">>) /\ Avoids(<<"hide", "refresh">>, NewSteps) /\ Avoids(<<"hide", "refresh">>, OldSteps)
    <3>1. "hide" \in Step /\ "refresh" \in Step
      BY DEF Step
    <3>2. Follows("hide", "refresh") /\ Follows("refresh", "end")
      BY DEF Follows
    <3>3. "hide" \notin NewSteps /\ "refresh" \notin NewSteps /\ "hide" \notin OldSteps /\ "refresh" \notin OldSteps
      BY DEF NewSteps, OldSteps
    <3>. QED  BY <1>4, <3>1, <3>2, <3>3
  <2>6. Block(<<"free", "save">>) /\ Avoids(<<"free", "save">>, OldSteps)
    <3>1. "free" \in Step /\ "save" \in Step
      BY DEF Step
    <3>2. Follows("free", "save") /\ Follows("save", "end")
      BY DEF Follows
    <3>3. "free" \notin OldSteps /\ "save" \notin OldSteps
      BY DEF NewSteps, OldSteps
    <3>. QED  BY <1>4, <3>1, <3>2, <3>3
  <2>. QED  BY <2>1, <2>2, <2>3, <2>4, <2>5, <2>6
<1>9. /\ Block(<<"resolve", "forget", "clear">>) /\ Avoids(<<"resolve", "forget", "clear">>, NewSteps)
      /\ Block(<<"resolve", "look", "move">>) /\ Avoids(<<"resolve", "look", "move">>, NewSteps) /\ Avoids(<<"resolve", "look", "move">>, OldSteps)
      /\ Block(<<"look", "move", "refresh">>) /\ Avoids(<<"look", "move", "refresh">>, NewSteps) /\ Avoids(<<"look", "move", "refresh">>, OldSteps)
      /\ Block(<<"resolve", "free", "save">>) /\ Avoids(<<"resolve", "free", "save">>, OldSteps)
      /\ Block(<<"login", "protect", "insert">>) /\ Avoids(<<"login", "protect", "insert">>, OldSteps)
  <2>1. Block(<<"resolve", "forget", "clear">>) /\ Avoids(<<"resolve", "forget", "clear">>, NewSteps)
    <3>1. "resolve" \in Step /\ "forget" \in Step /\ "clear" \in Step
      BY DEF Step
    <3>2. Follows("resolve", "forget") /\ Follows("forget", "clear") /\ Follows("clear", "end")
      BY DEF Follows
    <3>3. "resolve" \notin NewSteps /\ "forget" \notin NewSteps /\ "clear" \notin NewSteps
      BY DEF NewSteps, OldSteps
    <3>. QED  BY <1>5, <3>1, <3>2, <3>3
  <2>2. Block(<<"resolve", "look", "move">>) /\ Avoids(<<"resolve", "look", "move">>, NewSteps) /\ Avoids(<<"resolve", "look", "move">>, OldSteps)
    <3>1. "resolve" \in Step /\ "look" \in Step /\ "move" \in Step
      BY DEF Step
    <3>2. Follows("resolve", "look") /\ Follows("look", "move") /\ Follows("move", "end")
      BY DEF Follows
    <3>3. "resolve" \notin NewSteps /\ "look" \notin NewSteps /\ "move" \notin NewSteps /\ "resolve" \notin OldSteps /\ "look" \notin OldSteps /\ "move" \notin OldSteps
      BY DEF NewSteps, OldSteps
    <3>. QED  BY <1>5, <3>1, <3>2, <3>3
  <2>3. Block(<<"look", "move", "refresh">>) /\ Avoids(<<"look", "move", "refresh">>, NewSteps) /\ Avoids(<<"look", "move", "refresh">>, OldSteps)
    <3>1. "look" \in Step /\ "move" \in Step /\ "refresh" \in Step
      BY DEF Step
    <3>2. Follows("look", "move") /\ Follows("move", "refresh") /\ Follows("refresh", "end")
      BY DEF Follows
    <3>3. "look" \notin NewSteps /\ "move" \notin NewSteps /\ "refresh" \notin NewSteps /\ "look" \notin OldSteps /\ "move" \notin OldSteps /\ "refresh" \notin OldSteps
      BY DEF NewSteps, OldSteps
    <3>. QED  BY <1>5, <3>1, <3>2, <3>3
  <2>4. Block(<<"resolve", "free", "save">>) /\ Avoids(<<"resolve", "free", "save">>, OldSteps)
    <3>1. "resolve" \in Step /\ "free" \in Step /\ "save" \in Step
      BY DEF Step
    <3>2. Follows("resolve", "free") /\ Follows("free", "save") /\ Follows("save", "end")
      BY DEF Follows
    <3>3. "resolve" \notin OldSteps /\ "free" \notin OldSteps /\ "save" \notin OldSteps
      BY DEF NewSteps, OldSteps
    <3>. QED  BY <1>5, <3>1, <3>2, <3>3
  <2>5. Block(<<"login", "protect", "insert">>) /\ Avoids(<<"login", "protect", "insert">>, OldSteps)
    <3>1. "login" \in Step /\ "protect" \in Step /\ "insert" \in Step
      BY DEF Step
    <3>2. Follows("login", "protect") /\ Follows("protect", "insert") /\ Follows("insert", "end")
      BY DEF Follows
    <3>3. "login" \notin OldSteps /\ "protect" \notin OldSteps /\ "insert" \notin OldSteps
      BY DEF NewSteps, OldSteps
    <3>. QED  BY <1>5, <3>1, <3>2, <3>3
  <2>. QED  BY <2>1, <2>2, <2>3, <2>4, <2>5
<1>10. Block(<<"resolve", "login", "protect", "insert">>) /\ Avoids(<<"resolve", "login", "protect", "insert">>, OldSteps)
  <2>1. "resolve" \in Step /\ "login" \in Step /\ "protect" \in Step /\ "insert" \in Step
    BY DEF Step
  <2>2. Follows("resolve", "login") /\ Follows("login", "protect") /\ Follows("protect", "insert") /\ Follows("insert", "end")
    BY DEF Follows
  <2>3. "resolve" \notin OldSteps /\ "login" \notin OldSteps /\ "protect" \notin OldSteps /\ "insert" \notin OldSteps
    BY DEF NewSteps, OldSteps
  <2>. QED  BY <1>6, <2>1, <2>2, <2>3
<1>11. ASSUME NEW x \in {"hide", "hideOld", "refresh", "forget", "delete", "resolve", "discard", "save"}
       PROVE  /\ Block(<<x>>)
              /\ x # "save" => Avoids(<<x>>, NewSteps)
              /\ x # "delete" => Avoids(<<x>>, OldSteps)
  <2>1. /\ x \in Step
        /\ x \notin {"unlist", "select", "drain", "protect", "insert", "protectOld", "replace", "look", "move"}
    BY DEF Step
  <2>2. (x # "save" => x \notin NewSteps) /\ (x # "delete" => x \notin OldSteps)
    BY DEF NewSteps, OldSteps
  <2>. QED  BY <1>3, <2>1, <2>2
<1>. QED  BY <1>2, <1>7, <1>8, <1>9, <1>10, <1>11

-----------------------------------------------------------------------------
(* What a process holds while it works *)

Op == [steps : Seq(Step), new : Service \union {Nothing}, old : Service \union {Nothing}, hide : BOOLEAN,
       ref : Ref \union {NoRef}, fresh : UNION {[S -> Ref] : S \in SUBSET Service}, olds : SUBSET Service,
       todo : SUBSET Ref, cards : Seq(Service), all : BOOLEAN, always : {<<>>, <<"refresh">>},
       changed : BOOLEAN, raced : BOOLEAN]

Is(o, step) == o.steps # <<>> /\ Head(o.steps) = step
Typed(o) ==
    /\ o \in Op /\ Program(o.steps)
    /\ o.new = Nothing => Avoids(o.steps, NewSteps)
    /\ o.old = Nothing => Avoids(o.steps, OldSteps)
Loose(o) == o.ref = NoRef /\ DOMAIN o.fresh = {}

\* References whose secrets are written and whose rows are not; what a collector removes is not among them.
Held(o) == IF Is(o, "drain") THEN {} ELSE ({o.ref} \union Range(o.fresh)) \cap Ref
Refs(S) == {S[s] : s \in Service} \cap Ref

\* The fields of an operation belong to its next step.
Fits(o) ==
    /\ Typed(o)
    /\ o.ref # NoRef => Is(o, "insert") \/ Is(o, "drain") \/ Is(o, "discard")
    /\ DOMAIN o.fresh # {} => Is(o, "protectOld") \/ Is(o, "replace") \/ Is(o, "discard")
    /\ \A s, t \in DOMAIN o.fresh : o.fresh[s] = o.fresh[t] => s = t
    /\ Is(o, "move") => Once(o.cards)

\* What it holds nobody else knows of, and its collector takes no secret in use, but after a race.
Secure(o, S, J, K, U) ==
    /\ Held(o) \subseteq U /\ Held(o) \cap (Refs(S) \union J) = {}
    /\ Is(o, "select") /\ ~o.raced => J \cap Refs(S) = {}
    /\ Is(o, "drain") => /\ o.todo \subseteq U /\ o.ref \in U \union {NoRef} /\ o.ref \notin K
                         /\ ~o.raced => o.todo \cap Refs(S) = {}

Apart(o, q) == Held(o) \cap Held(q) = {} /\ (Is(q, "drain") => Held(o) \cap q.todo = {})

\* An operation that holds nothing and collects nothing.
Quiet(o) ==
    /\ Typed(o) /\ Loose(o)
    /\ \A step \in {"select", "drain", "insert", "replace", "move"} : ~Is(o, step)

LEMMA NothingHeld ==
    ASSUME StoreAssumption, NEW o, Loose(o)
    PROVE  Held(o) = {}
  BY DEF Held, Loose, StoreAssumption, Range

LEMMA QuietFits ==
    ASSUME StoreAssumption, NEW o, Quiet(o)
    PROVE  Fits(o) /\ Held(o) = {}
  BY NothingHeld DEF Quiet, Fits, Loose

LEMMA QuietSecure ==
    ASSUME StoreAssumption, NEW o, Quiet(o), NEW S, NEW J, NEW K, NEW U
    PROVE  Secure(o, S, J, K, U)
  BY QuietFits DEF Quiet, Secure

LEMMA IdleIs == ASSUME StoreAssumption PROVE Idle \in Op /\ Loose(Idle) /\ Idle.steps = <<>> /\ ~Idle.changed
<1>1. Idle.fresh \in [{} -> Ref] /\ DOMAIN Idle.fresh = {}
  BY DEF Idle
<1>2. <<>> \in Seq(Step) /\ <<>> \in Seq(Service)
  BY EmptySeq
<1>3. Idle.fresh \in UNION {[S -> Ref] : S \in SUBSET Service}
  BY <1>1
<1>4. Idle \in Op
  BY <1>2, <1>3 DEF Idle, Op
<1>. QED  BY <1>1, <1>4 DEF Idle, Loose

\* The next step of a program, its last one included.
LEMMA Advance ==
    ASSUME StoreAssumption, NEW o, Typed(o), o.steps # <<>>
    PROVE  /\ Typed(After(o)) /\ After(o).changed = o.changed /\ After(o).always \in {<<>>, <<"refresh">>}
           /\ Head(o.steps) = o.steps[1] /\ Head(o.steps) \in Step
           /\ After(o).steps = Tail(o.steps) /\ \A N : Avoids(o.steps, N) => Avoids(Tail(o.steps), N)
           /\ After(o).steps # <<>> => /\ After(o) = [o EXCEPT !.steps = Tail(o.steps)]
                                       /\ Follows(Head(o.steps), Head(After(o).steps))
           /\ After(o).steps = <<>> => /\ After(o) = [Idle EXCEPT !.changed = o.changed]
                                       /\ Follows(Head(o.steps), "end")
<1> DEFINE s == o.steps
           t == Tail(s)
           n == Len(s)
           k == Len(t)
<1>1. s \in Seq(Step) /\ s # <<>> /\ o \in Op
  BY DEF Typed, Program
<1>2. /\ n \in Nat /\ n # 0 /\ t \in Seq(Step) /\ k = n - 1 /\ Head(s) \in Step /\ Head(s) = s[1]
      /\ \A i \in 1 .. k : t[i] = s[i + 1]
      /\ t = <<>> <=> k = 0
      /\ t # <<>> => Head(t) = t[1]
  <2>1. n \in Nat /\ n # 0
    BY <1>1, LenProperties, EmptySeq
  <2>2. t \in Seq(Step) /\ k = n - 1 /\ Head(s) \in Step /\ \A i \in 1 .. k : t[i] = s[i + 1]
    BY <1>1, HeadTailProperties
  <2>3. t = <<>> <=> k = 0
    BY <2>2, EmptySeq
  <2>4. Head(s) = s[1]
    BY <1>1
  <2>5. t # <<>> => Head(t) = t[1]
    <3>. HIDE DEF t
    <3>. QED  BY <2>2
  <2>. QED  BY <2>1, <2>2, <2>3, <2>4, <2>5
<1>3. \A i \in 1 .. n : Follows(s[i], IF i < n THEN s[i + 1] ELSE "end")
  BY DEF Typed, Program
<1>4. \A N : Avoids(s, N) <=> \A i \in 1 .. n : s[i] \notin N
  BY DEF Avoids
<1>5. \A N : Avoids(t, N) <=> \A i \in 1 .. k : t[i] \notin N
  BY DEF Avoids
<1>6. Program(t) <=> \A i \in 1 .. k : Follows(t[i], IF i < k THEN t[i + 1] ELSE "end")
  BY <1>2 DEF Program
<1>7. After(o) = IF n = 1 THEN [Idle EXCEPT !.changed = o.changed] ELSE [o EXCEPT !.steps = t]
  BY DEF After
<1>. HIDE DEF n, k, t
<1>8. CASE n = 1
  <2>1. Follows(s[1], "end")
    BY <1>3, <1>8
  <2>2. After(o) = [Idle EXCEPT !.changed = o.changed]
    BY <1>7, <1>8
  <2>3. o.changed \in BOOLEAN
    BY <1>1 DEF Op
  <2>4. After(o) \in Op /\ After(o).steps = <<>> /\ After(o).changed = o.changed
    BY <2>2, <2>3, IdleIs DEF Op
  <2>5. After(o).always \in {<<>>, <<"refresh">>}
    BY <2>4 DEF Op
  <2>6. Program(<<>>) /\ \A N : Avoids(<<>>, N)
    BY Pieces DEF Block
  <2>7. t = <<>>
    BY <1>2, <1>8
  <2>. QED  BY <1>2, <2>1, <2>2, <2>4, <2>5, <2>6, <2>7 DEF Typed, t
<1>9. CASE n # 1
  <2>1. After(o) = [o EXCEPT !.steps = t]
    BY <1>7, <1>9
  <2>2. k # 0 /\ t # <<>> /\ t[1] = s[2] /\ Follows(s[1], s[2]) /\ Head(t) = t[1]
    <3>1. 1 \in 1 .. k /\ 1 \in 1 .. n /\ 1 < n /\ k # 0
      BY <1>2, <1>9
    <3>. QED  BY <1>2, <1>3, <3>1
  <2>3. Program(t)
    <3>1. ASSUME NEW i \in 1 .. k PROVE Follows(t[i], IF i < k THEN t[i + 1] ELSE "end")
      <4>1. i + 1 \in 1 .. n /\ t[i] = s[i + 1] /\ (i < k <=> i + 1 < n)
        BY <1>2, <3>1
      <4>2. i < k => t[i + 1] = s[(i + 1) + 1]
        <5>1. i < k => i + 1 \in 1 .. k
          BY <1>2
        <5>. QED  BY <1>2, <5>1
      <4>. QED  BY <1>3, <4>1, <4>2
    <3>. QED  BY <1>6, <3>1
  <2>4. \A N : Avoids(s, N) => Avoids(t, N)
    <3>1. \A i \in 1 .. k : i + 1 \in 1 .. n
      BY <1>2
    <3>. QED  BY <1>2, <1>4, <1>5, <3>1
  <2>5. /\ After(o) \in Op /\ After(o).steps = t /\ After(o).new = o.new /\ After(o).old = o.old /\ After(o).changed = o.changed
        /\ After(o).always \in {<<>>, <<"refresh">>}
    BY <1>1, <1>2, <2>1 DEF Op
  <2>6. Typed(After(o))
    BY <2>3, <2>4, <2>5 DEF Typed
  <2>. QED  BY <1>2, <2>1, <2>2, <2>4, <2>5, <2>6 DEF t
<1>. QED  BY <1>8, <1>9

LEMMA QuietAfter ==
    ASSUME StoreAssumption, NEW o, Typed(o), o.steps # <<>>, Loose(o),
           \A step \in {"unlist", "select", "protect", "protectOld", "look"} : ~Is(o, step)
    PROVE  Quiet(After(o)) /\ After(o).changed = o.changed
<1>1. Head(o.steps) \notin {"unlist", "select", "protect", "protectOld", "look"}
  BY DEF Is
<1>2. CASE After(o).steps = <<>>
  BY <1>2, Advance, IdleIs DEF Quiet, Is, Loose, Op
<1>3. CASE After(o).steps # <<>>
  <2>1. After(o).ref = o.ref /\ After(o).fresh = o.fresh
    BY <1>3, Advance DEF Typed, Op
  <2>2. Head(After(o).steps) \notin {"select", "drain", "insert", "replace", "move"}
    BY <1>1, <1>3, Advance DEF Follows
  <2>. QED  BY <2>1, <2>2, Advance DEF Quiet, Is, Loose
<1>. QED  BY <1>2, <1>3

LEMMA QuietFailed ==
    ASSUME StoreAssumption, NEW o, o \in Op
    PROVE  Quiet(Failed(o)) /\ Failed(o).changed = o.changed
<1>1. o.always \in {<<>>, <<"refresh">>} /\ o.changed \in BOOLEAN
  BY DEF Op
<1>2. \A s \in {<<>>, <<"refresh">>} : s \in Seq(Step) /\ Program(s) /\ Avoids(s, NewSteps) /\ Avoids(s, OldSteps)
  BY Pieces DEF Block, Program
<1>3. /\ Failed(o) \in Op /\ Failed(o).steps = o.always /\ Failed(o).changed = o.changed
      /\ Failed(o).ref = Idle.ref /\ Failed(o).fresh = Idle.fresh
  BY <1>1, <1>2, IdleIs DEF Failed, Op
<1>4. Typed(Failed(o)) /\ Loose(Failed(o))
  BY <1>1, <1>2, <1>3, IdleIs DEF Typed, Loose
<1>5. o.always # <<>> => Head(o.always) = "refresh"
  BY <1>1
<1>. QED  BY <1>3, <1>4, <1>5 DEF Quiet, Is

-----------------------------------------------------------------------------
(* The secrets, whatever the state of database, keyring and processes *)

Secrets(ops, S, J, K, U, L) ==
    /\ S \in [Service -> Ref \union {NoRef, Plain}] /\ J \subseteq U /\ K \subseteq U
    /\ U \subseteq Ref /\ L \subseteq Ref /\ Refs(S) \subseteq U
    /\ \A s, t \in Service : S[s] \in Ref /\ S[s] = S[t] => s = t
    /\ ops \in [Proc -> Op]
    /\ \A p \in Proc : Fits(ops[p]) /\ Secure(ops[p], S, J, K, U)
    /\ \A p, q \in Proc : p # q => Apart(ops[p], ops[q])
    /\ \A r \in K : r \in Refs(S) \union J \union L \/ \E p \in Proc : r \in Held(ops[p])

\* The operation of p goes on as o, alone or with a warning to those who look for references to remove.
Alone(ops2, ops, p, o) == ops2 = [ops EXCEPT ![p] = o]
Warns(ops2, ops, p, o) == ops2 = Raced([ops EXCEPT ![p] = o], p)
GoesOn(ops2, ops, p, o) == Alone(ops2, ops, p, o) \/ Warns(ops2, ops, p, o)

\* The same operation, but for a warning.
Like(o2, o) ==
    /\ o2 \in Op /\ o2.steps = o.steps /\ o2.ref = o.ref /\ o2.todo = o.todo /\ o2.changed = o.changed
    /\ \A step \in Step : Is(o2, step) <=> Is(o, step)
    /\ Held(o2) = Held(o)
    /\ Fits(o) => Fits(o2)
    /\ o.raced => o2.raced

LEMMA OthersStay ==
    ASSUME NEW ops \in [Proc -> Op], NEW p \in Proc, NEW o \in Op, NEW ops2, GoesOn(ops2, ops, p, o)
    PROVE  /\ ops2 \in [Proc -> Op] /\ ops2[p] = o
           /\ \A q \in Proc : q # p => Like(ops2[q], ops[q])
           /\ Alone(ops2, ops, p, o) => \A q \in Proc : q # p => ops2[q] = ops[q]
           /\ Warns(ops2, ops, p, o) => \A q \in Proc : q # p /\ Is(ops[q], "select") => ops2[q].raced
<1>1. ASSUME NEW q \in Proc \ {p}
      PROVE  /\ ops2[q] = ops[q] \/ ops2[q] = [ops[q] EXCEPT !.raced = TRUE]
             /\ Alone(ops2, ops, p, o) => ops2[q] = ops[q]
             /\ Warns(ops2, ops, p, o) /\ Is(ops[q], "select") => ops2[q] = [ops[q] EXCEPT !.raced = TRUE]
  BY DEF GoesOn, Alone, Warns, Raced, Is
<1>2. ASSUME NEW q \in Proc \ {p}
      PROVE  /\ ops[q] \in Op /\ ops2[q] \in Op /\ ops2[q].changed = ops[q].changed
             /\ ops2[q].steps = ops[q].steps /\ ops2[q].ref = ops[q].ref /\ ops2[q].fresh = ops[q].fresh
             /\ ops2[q].todo = ops[q].todo /\ ops2[q].new = ops[q].new /\ ops2[q].old = ops[q].old /\ ops2[q].cards = ops[q].cards
             /\ ops[q].raced => ops2[q].raced
             /\ ops2[q] = [ops[q] EXCEPT !.raced = TRUE] => ops2[q].raced
  <2>1. ops[q] \in Op
    OBVIOUS
  <2>2. CASE ops2[q] = ops[q]
    BY <2>1, <2>2 DEF Op
  <2>3. CASE ops2[q] = [ops[q] EXCEPT !.raced = TRUE]
    BY <2>1, <2>3 DEF Op
  <2>. QED  BY <1>1, <2>2, <2>3
<1>3. ASSUME NEW q \in Proc \ {p}
      PROVE  Like(ops2[q], ops[q])
  BY <1>2 DEF Is, Held, Fits, Typed, Like
<1>4. ops2[p] = o /\ ops2 \in [Proc -> Op]
  <2>1. ops2[p] = o /\ ops2 = [q \in Proc |-> ops2[q]]
    BY DEF GoesOn, Alone, Warns, Raced
  <2>2. \A q \in Proc : ops2[q] \in Op
    BY <1>2, <2>1
  <2>. QED  BY <2>1, <2>2
<1>. QED  BY <1>1, <1>2, <1>3, <1>4

LEMMA Settled ==
    ASSUME StoreAssumption,
           NEW ops, NEW S, NEW J, NEW K, NEW U, NEW L, Secrets(ops, S, J, K, U, L),
           NEW ops2, NEW S2, NEW J2, NEW K2, NEW U2, NEW L2,
           NEW p \in Proc, NEW o, Fits(o), Secure(o, S2, J2, K2, U2), GoesOn(ops2, ops, p, o),
           Held(o) \subseteq Held(ops[p]) \union (U2 \ U),
           Is(o, "drain") => o.todo \subseteq J \/ (Is(ops[p], "drain") /\ o.todo \subseteq ops[p].todo),
           S2 \in [Service -> Ref \union {NoRef, Plain}], J2 \subseteq U2, K2 \subseteq U2,
           U2 \subseteq Ref, L2 \subseteq Ref, U \subseteq U2, K2 \cap U \subseteq K,
           \A s, t \in Service : S2[s] \in Ref /\ S2[s] = S2[t] => s = t,
           Refs(S2) \subseteq Refs(S) \union Held(ops[p]),
           J2 \subseteq J \union Refs(S) \union Held(ops[p]),
           \/ J2 \cap Refs(S2) \subseteq J \cap Refs(S)
           \/ Warns(ops2, ops, p, o),
           \A r \in K2 : r \in Refs(S) \union J \union L \union Held(ops[p]) \union (U2 \ U)
                           => r \in Refs(S2) \union J2 \union L2 \union Held(o)
    PROVE  Secrets(ops2, S2, J2, K2, U2, L2)
<1>1. /\ o \in Op /\ ops \in [Proc -> Op]
      /\ J \subseteq U /\ K \subseteq U /\ U \subseteq Ref /\ Refs(S) \subseteq U
      /\ \A q \in Proc : Fits(ops[q]) /\ Secure(ops[q], S, J, K, U)
      /\ \A q, u \in Proc : q # u => Apart(ops[q], ops[u])
      /\ \A r \in K : r \in Refs(S) \union J \union L \/ \E q \in Proc : r \in Held(ops[q])
  BY DEF Secrets, Fits, Typed
<1>2. /\ ops2 \in [Proc -> Op] /\ ops2[p] = o
      /\ \A q \in Proc : q # p => Like(ops2[q], ops[q])
      /\ Warns(ops2, ops, p, o) => \A q \in Proc : q # p /\ Is(ops[q], "select") => ops2[q].raced
  BY <1>1, OthersStay
<1>3. Held(ops[p]) \subseteq U
  BY <1>1 DEF Secure
<1>4. Refs(S2) \subseteq U2
  BY <1>1, <1>3
<1>5. ASSUME NEW q \in Proc \ {p}
      PROVE  Secure(ops2[q], S2, J2, K2, U2)
  <2>1. /\ Held(ops[q]) \subseteq U /\ Held(ops[q]) \cap (Refs(S) \union J) = {}
        /\ Held(ops[q]) \cap Held(ops[p]) = {}
    BY <1>1 DEF Secure, Apart
  <2>2. Held(ops2[q]) \subseteq U2 /\ Held(ops2[q]) \cap (Refs(S2) \union J2) = {}
    BY <1>2, <2>1 DEF Like
  <2>3. ASSUME Is(ops2[q], "select"), ~ops2[q].raced
        PROVE  J2 \cap Refs(S2) = {}
    <3>1. Is(ops[q], "select") /\ ~ops[q].raced /\ J2 \cap Refs(S2) \subseteq J \cap Refs(S)
      BY <1>2, <2>3 DEF Step, Like
    <3>. QED  BY <1>1, <3>1 DEF Secure
  <2>4. ASSUME Is(ops2[q], "drain")
        PROVE  /\ ops2[q].todo \subseteq U2 /\ ops2[q].ref \in U2 \union {NoRef} /\ ops2[q].ref \notin K2
               /\ ~ops2[q].raced => ops2[q].todo \cap Refs(S2) = {}
    <3>1. Is(ops[q], "drain")
      BY <1>2, <2>4 DEF Step, Like
    <3>2. /\ ops[q].todo \subseteq U /\ ops[q].ref \in U \union {NoRef} /\ ops[q].ref \notin K
          /\ ~ops[q].raced => ops[q].todo \cap Refs(S) = {}
      BY <1>1, <3>1 DEF Secure
    <3>3. Held(ops[p]) \cap ops[q].todo = {}
      BY <1>1, <3>1 DEF Apart
    <3>4. ops[q].ref \notin K2
      BY <1>1, <3>2 DEF StoreAssumption
    <3>. QED  BY <1>2, <3>2, <3>3, <3>4 DEF Like
  <2>. QED  BY <2>2, <2>3, <2>4 DEF Secure
<1>6. ASSUME NEW q \in Proc, NEW u \in Proc, q # u
      PROVE  Apart(ops2[q], ops2[u])
  <2>1. CASE q # p /\ u # p
    BY <1>1, <1>2, <1>6, <2>1 DEF Apart, Step, Like
  <2>2. CASE q = p
    <3>1. /\ Held(ops[p]) \cap Held(ops[u]) = {} /\ (Is(ops[u], "drain") => Held(ops[p]) \cap ops[u].todo = {})
          /\ Held(ops[u]) \subseteq U /\ (Is(ops[u], "drain") => ops[u].todo \subseteq U)
      BY <1>1, <1>6, <2>2 DEF Apart, Secure
    <3>. QED  BY <1>2, <1>6, <2>2, <3>1 DEF Apart, Step, Like
  <2>3. CASE u = p
    <3>1. /\ Held(ops[p]) \cap Held(ops[q]) = {} /\ Held(ops[q]) \subseteq U /\ Held(ops[q]) \cap J = {}
          /\ (Is(ops[p], "drain") => Held(ops[q]) \cap ops[p].todo = {})
      BY <1>1, <1>6, <2>3 DEF Apart, Secure
    <3>2. Held(ops2[q]) \cap Held(o) = {} /\ (Is(o, "drain") => Held(ops2[q]) \cap o.todo = {})
      BY <1>2, <1>6, <2>3, <3>1 DEF Like
    <3>. QED  BY <1>2, <2>3, <3>2 DEF Apart
  <2>. QED  BY <2>1, <2>2, <2>3
<1>7. ASSUME NEW r \in K2
      PROVE  r \in Refs(S2) \union J2 \union L2 \/ \E q \in Proc : r \in Held(ops2[q])
  <2>1. CASE r \in Refs(S) \union J \union L \union Held(ops[p]) \union (U2 \ U)
    BY <1>2, <2>1
  <2>2. CASE r \notin Refs(S) \union J \union L \union Held(ops[p]) \union (U2 \ U)
    <3>1. r \in K
      BY <2>2
    <3>2. PICK q \in Proc : r \in Held(ops[q])
      BY <1>1, <2>2, <3>1
    <3>. QED  BY <1>2, <2>2, <3>2 DEF Like
  <2>. QED  BY <2>1, <2>2
<1>8. \A q \in Proc : Fits(ops2[q]) /\ Secure(ops2[q], S2, J2, K2, U2)
  BY <1>1, <1>2, <1>5 DEF Like
<1>. QED  BY <1>2, <1>4, <1>6, <1>7, <1>8 DEF Secrets

-----------------------------------------------------------------------------
(* The steps of an operation, one lemma each *)

Now == Secrets(op, session, journal, keyring, used, lost)

LEMMA LooseAt ==
    ASSUME StoreAssumption, NEW o, Fits(o), NEW step, Is(o, step),
           step \notin {"insert", "drain", "discard", "protectOld", "replace"}
    PROVE  Loose(o) /\ Held(o) = {}
  BY NothingHeld DEF Fits, Is, Loose

\* An operation that holds nothing goes on with nothing, and database and keyring stay.
LEMMA QuietStep ==
    ASSUME StoreAssumption, Now, NEW p \in Proc, NEW o, Quiet(o), Held(op[p]) = {},
           op' = [op EXCEPT ![p] = o], UNCHANGED <<session, journal, keyring, used, lost>>
    PROVE  Now'
<1>1. Fits(o) /\ Held(o) = {} /\ ~Is(o, "drain") /\ Secure(o, session', journal', keyring', used')
  BY QuietFits, QuietSecure DEF Quiet
<1>2. GoesOn(op', op, p, o)
  BY DEF GoesOn, Alone
<1>3. /\ session \in [Service -> Ref \union {NoRef, Plain}] /\ journal \subseteq used /\ keyring \subseteq used
      /\ used \subseteq Ref /\ lost \subseteq Ref
      /\ \A s, t \in Service : session[s] \in Ref /\ session[s] = session[t] => s = t
  BY DEF Now, Secrets
<1>4. Secrets(op', session', journal', keyring', used', lost')
  <2>. USE DEF Now
  <2>. QED  BY <1>1, <1>2, <1>3, Settled
<1>. QED  BY <1>4 DEF Now

LEMMA AtIs ==
    ASSUME Now, NEW p \in Proc, NEW step, At(p, step)
    PROVE  /\ Is(op[p], step) /\ Fits(op[p]) /\ Typed(op[p]) /\ op[p] \in Op /\ op[p].steps # <<>>
           /\ Secure(op[p], session, journal, keyring, used)
  BY DEF At, Is, Now, Secrets, Fits, Typed

\* A step that fails while nothing is held.
LEMMA FailStep ==
    ASSUME StoreAssumption, Now, NEW p \in Proc, Held(op[p]) = {}, Fail(p),
           UNCHANGED <<session, journal, keyring, used, lost>>
    PROVE  Now'
<1>1. op[p] \in Op
  BY DEF Now, Secrets
<1>. QED  BY <1>1, QuietFailed, QuietStep DEF Fail

\* A step that succeeds, holds nothing, and changes neither the sessions nor the keyring.
LEMMA PlainStep ==
    ASSUME StoreAssumption, Now, NEW p \in Proc, NEW x, Typed(x), Loose(x), x.steps = op[p].steps,
           op[p].steps # <<>>, Held(op[p]) = {}, Then(p, x),
           \A step \in {"unlist", "select", "protect", "protectOld", "look"} : ~Is(op[p], step),
           UNCHANGED <<session, journal, keyring, used, lost>>
    PROVE  Now'
<1>1. Quiet(After(x))
  BY QuietAfter DEF Is
<1>. QED  BY <1>1, QuietStep DEF Then

\* What every step of p may assume.
LEMMA Assumed ==
    ASSUME Now, NEW p \in Proc
    PROVE  /\ session \in [Service -> Ref \union {NoRef, Plain}] /\ journal \subseteq used
           /\ keyring \subseteq used /\ used \subseteq Ref /\ lost \subseteq Ref /\ Refs(session) \subseteq used
           /\ \A s, t \in Service : session[s] \in Ref /\ session[s] = session[t] => s = t
           /\ op \in [Proc -> Op] /\ op[p] \in Op /\ Fits(op[p]) /\ Typed(op[p])
           /\ Secure(op[p], session, journal, keyring, used)
           /\ Refs(session) = Referenced
  BY DEF Now, Secrets, Fits, Refs, Referenced

LEMMA UnlistStep ==
    ASSUME StoreAssumption, Now, NEW p \in Proc, Unlist(p)
    PROVE  Now'
<1> DEFINE x == [op[p] EXCEPT !.raced = FALSE]
           o == After(x)
<1>1. At(p, "unlist") /\ UNCHANGED <<session, keyring, used, lost>>
  BY DEF Unlist, Keep
<1>2. Is(op[p], "unlist") /\ Loose(op[p]) /\ Held(op[p]) = {}
  BY <1>1, AtIs, LooseAt
<1>3. CASE UNCHANGED journal /\ Fail(p)
  BY <1>1, <1>2, <1>3, FailStep
<1>4. CASE journal' = journal \ Referenced /\ Then(p, x)
  <2>1. Typed(x) /\ Loose(x) /\ x.steps # <<>> /\ Head(x.steps) = "unlist" /\ ~x.raced
    BY <1>2, Assumed DEF Typed, Loose, Op, Is
  <2>2. /\ Typed(o)
        /\ o.steps # <<>> => o = [x EXCEPT !.steps = Tail(x.steps)] /\ Head(o.steps) = "select"
        /\ o.steps = <<>> => o = [Idle EXCEPT !.changed = x.changed]
    BY <2>1, Advance DEF Follows
  <2>3. Loose(o) /\ (o.steps # <<>> => ~o.raced)
    BY <2>1, <2>2, IdleIs DEF Typed, Op, Loose
  <2>. HIDE DEF x, o
  <2>4. Fits(o) /\ Held(o) = {} /\ ~Is(o, "drain")
    BY <2>2, <2>3, NothingHeld DEF Fits, Is, Loose
  <2>5. Secure(o, session', journal', keyring', used')
    BY <1>1, <1>4, <2>3, <2>4, Assumed DEF Secure, Is
  <2>6. GoesOn(op', op, p, o)
    BY <1>4 DEF GoesOn, Alone, Then, o
  <2>7. journal' \cap Refs(session') = {} /\ journal' \subseteq journal
    BY <1>1, <1>4, Assumed
  <2>8. \A r \in keyring : r \in Refs(session) \union journal => r \in Refs(session) \union journal'
    BY <1>4, Assumed
  <2>9. Secrets(op', session', journal', keyring', used', lost')
    BY <1>1, <1>2, <2>4, <2>5, <2>6, <2>7, <2>8, Assumed, Settled DEF Now
  <2>. QED  BY <2>9 DEF Now
<1>. QED  BY <1>3, <1>4 DEF Unlist

LEMMA SelectStep ==
    ASSUME StoreAssumption, Now, NEW p \in Proc, Select(p)
    PROVE  Now'
<1> DEFINE x == [op[p] EXCEPT !.todo = journal]
           o == After(x)
<1>1. At(p, "select") /\ UNCHANGED <<session, journal, keyring, used, lost>>
  BY DEF Select, Keep, store
<1>2. Is(op[p], "select") /\ Loose(op[p]) /\ Held(op[p]) = {}
  BY <1>1, AtIs, LooseAt
<1>3. CASE Fail(p)
  BY <1>1, <1>2, <1>3, FailStep
<1>4. CASE Then(p, x)
  <2>1. /\ Typed(x) /\ Loose(x) /\ x.steps # <<>> /\ Head(x.steps) = "select" /\ x.todo = journal
        /\ x.raced = op[p].raced
    <3>1. journal \in SUBSET Ref
      BY Assumed
    <3>. QED  BY <1>2, <3>1, Assumed DEF Typed, Loose, Op, Is
  <2>2. /\ Typed(o)
        /\ o.steps # <<>> => o = [x EXCEPT !.steps = Tail(x.steps)] /\ Head(o.steps) = "drain"
        /\ o.steps = <<>> => o = [Idle EXCEPT !.changed = x.changed]
    BY <2>1, Advance DEF Follows
  <2>3. Loose(o) /\ (o.steps # <<>> => o.todo = journal /\ o.raced = op[p].raced)
    BY <2>1, <2>2, IdleIs DEF Typed, Op, Loose
  <2>. HIDE DEF x, o
  <2>4. Fits(o) /\ Held(o) = {}
    BY <2>2, <2>3, NothingHeld DEF Fits, Is, Loose
  <2>5. ~op[p].raced => journal \cap Refs(session) = {}
    BY <1>2, Assumed DEF Secure
  <2>6. Secure(o, session', journal', keyring', used')
    BY <1>1, <2>2, <2>3, <2>4, <2>5, Assumed DEF Secure, Is, Loose, StoreAssumption
  <2>7. GoesOn(op', op, p, o)
    BY <1>4 DEF GoesOn, Alone, Then, o
  <2>8. Is(o, "drain") => o.todo \subseteq journal
    BY <2>3 DEF Is
  <2>9. Secrets(op', session', journal', keyring', used', lost')
    BY <1>1, <1>2, <2>4, <2>6, <2>7, <2>8, Assumed, Settled DEF Now
  <2>. QED  BY <2>9 DEF Now
<1>. QED  BY <1>3, <1>4 DEF Select

LEMMA RemoveStep ==
    ASSUME StoreAssumption, Now, NEW p \in Proc, RemoveSecret(p)
    PROVE  Now'
<1>1. At(p, "drain") /\ op[p].ref = NoRef /\ UNCHANGED <<session, journal, used, lost>>
  BY DEF RemoveSecret, Keep
<1>2. Is(op[p], "drain") /\ Held(op[p]) = {} /\ DOMAIN op[p].fresh = {}
  BY <1>1, AtIs DEF Held, Is, Fits
<1>3. /\ op[p].todo \subseteq used
      /\ ~op[p].raced => op[p].todo \cap Refs(session) = {}
  BY <1>2, Assumed DEF Secure
<1>4. PICK r \in op[p].todo :
        \/ keyring' = execute("Remove", r) /\ op' = [op EXCEPT ![p].ref = r, ![p].todo = @ \ {r}]
        \/ keyring' \in {keyring, execute("Remove", r)} /\ Fail(p)
  BY DEF RemoveSecret
<1>5. r \in used /\ r \in Ref /\ keyring' \subseteq keyring /\ keyring' \subseteq used
  BY <1>3, <1>4, Assumed DEF execute
<1>6. CASE Fail(p)
  <2>1. Quiet(Failed(op[p])) /\ GoesOn(op', op, p, Failed(op[p]))
    BY <1>6, Assumed, QuietFailed DEF Fail, GoesOn, Alone
  <2>2. /\ Fits(Failed(op[p])) /\ Held(Failed(op[p])) = {} /\ ~Is(Failed(op[p]), "drain")
        /\ Secure(Failed(op[p]), session', journal', keyring', used')
    BY <2>1, QuietFits, QuietSecure DEF Quiet
  <2>3. Secrets(op', session', journal', keyring', used', lost')
    BY <1>1, <1>2, <1>5, <2>1, <2>2, Assumed, Settled DEF Now
  <2>. QED  BY <2>3 DEF Now
<1>7. CASE keyring' = execute("Remove", r) /\ op' = [op EXCEPT ![p].ref = r, ![p].todo = @ \ {r}]
  <2> DEFINE o == [op[p] EXCEPT !.ref = r, !.todo = @ \ {r}]
  <2>1. /\ Typed(o) /\ o.steps = op[p].steps /\ o.ref = r /\ o.todo = op[p].todo \ {r}
        /\ o.fresh = op[p].fresh /\ o.raced = op[p].raced
    BY <1>5, Assumed DEF Typed, Op
  <2>2. op' = [op EXCEPT ![p] = o]
    BY <1>7, Assumed
  <2>. HIDE DEF o
  <2>3. Is(o, "drain") /\ Fits(o) /\ Held(o) = {}
    BY <1>2, <2>1 DEF Is, Fits, Held
  <2>4. Secure(o, session', journal', keyring', used')
    BY <1>1, <1>3, <1>5, <1>7, <2>1, <2>3 DEF Secure, Is, execute
  <2>5. GoesOn(op', op, p, o)
    BY <2>2 DEF GoesOn, Alone
  <2>6. Secrets(op', session', journal', keyring', used', lost')
    BY <1>1, <1>2, <1>5, <2>1, <2>3, <2>4, <2>5, Assumed, Settled DEF Now
  <2>. QED  BY <2>6 DEF Now
<1>. QED  BY <1>4, <1>6, <1>7

LEMMA StrikeStep ==
    ASSUME StoreAssumption, Now, NEW p \in Proc, Strike(p)
    PROVE  Now'
<1> DEFINE o == [op[p] EXCEPT !.ref = NoRef]
<1>1. At(p, "drain") /\ UNCHANGED <<session, keyring, used, lost>>
  BY DEF Strike, Keep
<1>2. Is(op[p], "drain") /\ Held(op[p]) = {} /\ DOMAIN op[p].fresh = {}
  BY <1>1, AtIs DEF Held, Is, Fits
<1>3. /\ op[p].todo \subseteq used /\ op[p].ref \notin keyring
      /\ ~op[p].raced => op[p].todo \cap Refs(session) = {}
  BY <1>2, Assumed DEF Secure
<1>4. CASE UNCHANGED journal /\ Fail(p)
  BY <1>1, <1>2, <1>4, FailStep
<1>5. CASE journal' = journal \ {op[p].ref} /\ op' = [op EXCEPT ![p].ref = NoRef]
  <2>1. /\ Typed(o) /\ o.steps = op[p].steps /\ o.ref = NoRef /\ o.todo = op[p].todo
        /\ o.fresh = op[p].fresh /\ o.raced = op[p].raced
    BY Assumed DEF Typed, Op
  <2>2. op' = [op EXCEPT ![p] = o]
    BY <1>5, Assumed
  <2>. HIDE DEF o
  <2>3. Is(o, "drain") /\ Fits(o) /\ Held(o) = {}
    BY <1>2, <2>1 DEF Is, Fits, Held
  <2>4. NoRef \notin keyring
    BY Assumed DEF StoreAssumption
  <2>5. Secure(o, session', journal', keyring', used')
    BY <1>1, <1>3, <2>1, <2>3, <2>4 DEF Secure, Is
  <2>6. GoesOn(op', op, p, o)
    BY <2>2 DEF GoesOn, Alone
  <2>7. \A r \in keyring : r \in journal => r \in journal'
    BY <1>3, <1>5
  <2>8. Secrets(op', session', journal', keyring', used', lost')
    BY <1>1, <1>2, <1>5, <2>1, <2>3, <2>5, <2>6, <2>7, Assumed, Settled DEF Now
  <2>. QED  BY <2>8 DEF Now
<1>. QED  BY <1>4, <1>5 DEF Strike

LEMMA DiscardStep ==
    ASSUME StoreAssumption, Now, NEW p \in Proc, Discard(p)
    PROVE  Now'
<1> DEFINE refs == Held(op[p])
           o == Failed(op[p])
<1>1. At(p, "discard") /\ Fail(p) /\ UNCHANGED <<session, used>>
  BY DEF Discard
<1>2. InFlight(p) = refs
  BY <1>1, AtIs DEF InFlight, Held, Is
<1>20. PICK kept \in SUBSET refs : \E queued \in SUBSET kept :
        /\ keyring' = keyring \ (refs \ kept)
        /\ journal' = journal \union queued
        /\ lost' = lost \union (kept \ queued)
  BY <1>2 DEF Discard
<1>3. PICK queued \in SUBSET kept :
        /\ keyring' = keyring \ (refs \ kept)
        /\ journal' = journal \union queued
        /\ lost' = lost \union (kept \ queued)
  BY <1>20
<1>4. refs \subseteq used /\ refs \cap (Refs(session) \union journal) = {}
  BY Assumed DEF Secure
<1>5. Quiet(o) /\ GoesOn(op', op, p, o)
  BY <1>1, Assumed, QuietFailed DEF Fail, GoesOn, Alone
<1>6. Fits(o) /\ Held(o) = {} /\ ~Is(o, "drain") /\ Secure(o, session', journal', keyring', used')
  BY <1>5, QuietFits, QuietSecure DEF Quiet
<1>. HIDE DEF o, refs
<1>7. journal' \cap Refs(session') \subseteq journal \cap Refs(session)
  BY <1>1, <1>3, <1>4
<1>8. /\ journal' \subseteq used /\ keyring' \subseteq used /\ keyring' \subseteq keyring /\ lost' \subseteq Ref
      /\ journal' \subseteq journal \union refs
  BY <1>3, <1>4, Assumed
<1>9. \A r \in keyring' : r \in Refs(session) \union journal \union lost \union refs
                            => r \in Refs(session) \union journal' \union lost'
  BY <1>3
<1>10. Secrets(op', session', journal', keyring', used', lost')
  BY <1>1, <1>5, <1>6, <1>7, <1>8, <1>9, Assumed, Settled DEF Now, refs
<1>. QED  BY <1>10 DEF Now

LEMMA InitializeStep ==
    ASSUME StoreAssumption, Now, NEW p \in Proc, initializeSessionTokenCleanup(p)
    PROVE  Now'
<1> DEFINE o == After(op[p])
<1>1. At(p, "queue") /\ UNCHANGED <<session, keyring, used, lost>>
  BY DEF initializeSessionTokenCleanup, Keep
<1>2. Is(op[p], "queue") /\ Loose(op[p]) /\ Held(op[p]) = {}
  BY <1>1, AtIs, LooseAt
<1>3. CASE UNCHANGED journal /\ Fail(p)
  BY <1>1, <1>2, <1>3, FailStep
<1>4. CASE journal' = journal \union Referenced /\ op' = Raced([op EXCEPT ![p] = After(@)], p)
  <2>1. op' = Raced([op EXCEPT ![p] = o], p)
    BY <1>4, Assumed
  <2>2. Quiet(o)
    <3>1. \A step \in {"unlist", "select", "protect", "protectOld", "look"} : ~Is(op[p], step)
      BY <1>2 DEF Is
    <3>. QED  BY <1>2, <3>1, Assumed, QuietAfter DEF Is
  <2>. HIDE DEF o
  <2>3. Fits(o) /\ Held(o) = {} /\ ~Is(o, "drain") /\ Secure(o, session', journal', keyring', used')
    BY <2>2, QuietFits, QuietSecure DEF Quiet
  <2>4. GoesOn(op', op, p, o) /\ Warns(op', op, p, o)
    BY <2>1 DEF GoesOn, Warns
  <2>5. journal' \subseteq used /\ journal' = journal \union Refs(session)
    BY <1>4, Assumed
  <2>6. Secrets(op', session', journal', keyring', used', lost')
    BY <1>1, <1>2, <2>3, <2>4, <2>5, Assumed, Settled DEF Now
  <2>. QED  BY <2>6 DEF Now
<1>. QED  BY <1>3, <1>4 DEF initializeSessionTokenCleanup

LEMMA DrainedStep ==
    ASSUME StoreAssumption, Now, NEW p \in Proc, Drained(p)
    PROVE  Now'
<1>1. /\ At(p, "drain") /\ op[p].ref = NoRef /\ Then(p, op[p])
      /\ UNCHANGED <<session, journal, keyring, used, lost>>
  BY DEF Drained, Keep, store
<1>2. Is(op[p], "drain") /\ Typed(op[p]) /\ Loose(op[p]) /\ Held(op[p]) = {} /\ op[p].steps # <<>>
  BY <1>1, AtIs DEF Held, Is, Fits, Loose
<1>3. \A step \in {"unlist", "select", "protect", "protectOld", "look"} : ~Is(op[p], step)
  BY <1>2 DEF Is
<1>. QED  BY <1>1, <1>2, <1>3, PlainStep

LEMMA ReadOldStep ==
    ASSUME StoreAssumption, Now, NEW p \in Proc, ReadOldTokens(p)
    PROVE  Now'
<1> DEFINE olds == {s \in Service : session[s] = Plain}
           rest == Tail(op[p].steps)
           first == <<"protectOld", "replace">> \o Collect
           o == [op[p] EXCEPT !.olds = olds, !.steps = first \o rest]
<1>1. At(p, "readOld") /\ UNCHANGED <<session, journal, keyring, used, lost>>
  BY DEF ReadOldTokens, Keep, store
<1>2. Is(op[p], "readOld") /\ Typed(op[p]) /\ Loose(op[p]) /\ Held(op[p]) = {} /\ op[p].steps # <<>>
  BY <1>1, AtIs, LooseAt
<1>3. CASE Fail(p)
  BY <1>1, <1>2, <1>3, FailStep
<1>4. CASE Then(p, op[p])
  <2>1. \A step \in {"unlist", "select", "protect", "protectOld", "look"} : ~Is(op[p], step)
    BY <1>2 DEF Is
  <2>. QED  BY <1>1, <1>2, <1>4, <2>1, PlainStep
<1>5. CASE op' = [op EXCEPT ![p].olds = olds, ![p].steps = first \o Tail(@)]
  <2>1. op' = [op EXCEPT ![p] = o]
    BY <1>5, Assumed
  <2>2. /\ rest \in Seq(Step) /\ Program(rest)
        /\ op[p].new = Nothing => Avoids(rest, NewSteps)
        /\ op[p].old = Nothing => Avoids(rest, OldSteps)
        /\ rest # <<>> => Follows("readOld", Head(rest)) /\ Head(rest) = rest[1]
    <3>1. /\ Program(After(op[p]).steps) /\ After(op[p]).steps = rest
          /\ \A N : Avoids(op[p].steps, N) => Avoids(rest, N)
          /\ rest # <<>> => Follows("readOld", Head(rest))
      BY <1>2, Advance DEF Typed, Is
    <3>2. rest # <<>> => Head(rest) = rest[1]
      <4>. HIDE DEF rest
      <4>. QED  BY <3>1 DEF Program
    <3>. QED  BY <1>2, <3>1, <3>2 DEF Typed, Program
  <2>. HIDE DEF rest
  <2>3. Block(rest)
    BY <2>2 DEF Block, Opens, Follows
  <2>4. /\ Block(first) /\ Avoids(first, NewSteps) /\ Avoids(first, OldSteps)
        /\ first # <<>> /\ first[1] = "protectOld"
    <3>1. <<"protectOld", "replace">> # <<>> /\ <<"protectOld", "replace">>[1] = "protectOld"
      OBVIOUS
    <3>. QED  BY <3>1, Pieces, Joined
  <2>. HIDE DEF first
  <2>5. /\ Block(first \o rest) /\ first \o rest # <<>> /\ (first \o rest)[1] = "protectOld"
        /\ \A N : Avoids(first, N) /\ Avoids(rest, N) => Avoids(first \o rest, N)
    BY <2>3, <2>4, Joined
  <2>6. first \o rest \in Seq(Step) /\ Head(first \o rest) = "protectOld"
    BY <2>5 DEF Block, Program
  <2>7. olds \in SUBSET Service
    OBVIOUS
  <2>8. o \in Op /\ o.steps = first \o rest /\ o.new = op[p].new /\ o.old = op[p].old /\ Loose(o)
    <3>1. op[p] \in Op
      BY Assumed
    <3>2. \A ss \in SUBSET Service, t \in Seq(Step) : [op[p] EXCEPT !.olds = ss, !.steps = t] \in Op
      BY <3>1 DEF Op
    <3>3. \A ss, t : LET y == [op[p] EXCEPT !.olds = ss, !.steps = t]
                    IN  y.steps = t /\ y.new = op[p].new /\ y.old = op[p].old /\ y.ref = op[p].ref /\ y.fresh = op[p].fresh
      BY <3>1 DEF Op
    <3> DEFINE all == first \o rest
    <3>4. all \in Seq(Step)
      BY <2>6
    <3>5. o = [op[p] EXCEPT !.olds = olds, !.steps = all]
      OBVIOUS
    <3>. HIDE DEF all, o, olds
    <3>6. o \in Op
      BY <2>7, <3>2, <3>4, <3>5
    <3>7. o.steps = all /\ o.new = op[p].new /\ o.old = op[p].old /\ o.ref = op[p].ref /\ o.fresh = op[p].fresh
      BY <3>3, <3>5
    <3>. QED  BY <1>2, <3>6, <3>7 DEF Loose, all
  <2>. HIDE DEF o
  <2>9. Quiet(o)
    BY <2>2, <2>4, <2>5, <2>6, <2>8 DEF Quiet, Typed, Block, Is
  <2>. QED  BY <1>1, <1>2, <2>1, <2>9, QuietStep
<1>. QED  BY <1>3, <1>4, <1>5 DEF ReadOldTokens

\* An operation that gives up keeps what it holds until it is discarded; what it wrote in vain is lost.
LEMMA GiveUpStep ==
    ASSUME StoreAssumption, Now, NEW p \in Proc, ~Is(op[p], "drain"), GiveUp(p),
           NEW N, N \subseteq Ref \ used,
           keyring' = keyring \union N, used' = used \union N, lost' = lost \union N,
           UNCHANGED <<session, journal>>
    PROVE  Now'
<1> DEFINE o == [op[p] EXCEPT !.steps = <<"discard">>]
<1>1. <<"discard">> \in Seq(Step) /\ Program(<<"discard">>) /\ Avoids(<<"discard">>, NewSteps) /\ Avoids(<<"discard">>, OldSteps)
  BY Pieces DEF Block, Program
<1>2. /\ o \in Op /\ o.steps = <<"discard">> /\ o.ref = op[p].ref /\ o.fresh = op[p].fresh
      /\ op' = [op EXCEPT ![p] = o]
  BY <1>1, Assumed DEF Op, GiveUp
<1>. HIDE DEF o
<1>3. Is(o, "discard") /\ ~Is(o, "drain") /\ ~Is(o, "select") /\ ~Is(o, "move")
  BY <1>2 DEF Is
<1>4. Fits(o) /\ Held(o) = Held(op[p])
  BY <1>1, <1>2, <1>3, Assumed DEF Fits, Typed, Held
<1>5. Secure(o, session', journal', keyring', used')
  BY <1>3, <1>4, Assumed DEF Secure
<1>6. GoesOn(op', op, p, o)
  BY <1>2 DEF GoesOn, Alone
<1>7. Secrets(op', session', journal', keyring', used', lost')
  BY <1>3, <1>4, <1>5, <1>6, Assumed, Settled DEF Now
<1>. QED  BY <1>7 DEF Now

LEMMA ProtectOldStep ==
    ASSUME StoreAssumption, Now, NEW p \in Proc, ProtectOldToken(p)
    PROVE  Now'
<1> DEFINE old == op[p]
           ready == DOMAIN old.fresh
<1>1. At(p, "protectOld") /\ UNCHANGED <<session, journal>>
  BY DEF ProtectOldToken
<1>2. /\ Is(old, "protectOld") /\ ~Is(old, "drain") /\ old.ref = NoRef
      /\ Fits(old) /\ old \in Op /\ Typed(old) /\ old.steps # <<>>
  BY <1>1, AtIs DEF Is, Fits
<1>3. /\ old.fresh \in [ready -> Ref] /\ ready \subseteq Service
      /\ Held(old) = {old.fresh[s] : s \in ready}
      /\ Held(old) \subseteq used /\ Held(old) \cap (Refs(session) \union journal) = {}
      /\ \A s, t \in ready : old.fresh[s] = old.fresh[t] => s = t
  <2>1. old.fresh \in [ready -> Ref] /\ ready \subseteq Service
    BY <1>2 DEF Op
  <2>2. Held(old) = {old.fresh[s] : s \in ready}
    BY <1>2, <2>1 DEF Held, Range, StoreAssumption
  <2>. QED  BY <1>2, <2>1, <2>2, Assumed DEF Secure, Fits
<1>4. CASE GiveUp(p) /\ UNCHANGED <<keyring, used, lost>>
  <2>1. {} \subseteq Ref \ used /\ keyring' = keyring \union {} /\ used' = used \union {} /\ lost' = lost \union {}
    BY <1>4
  <2>. QED  BY <1>1, <1>2, <1>4, <2>1, GiveUpStep
<1>5. CASE Then(p, old) /\ UNCHANGED <<keyring, used, lost>>
  <2> DEFINE o == After(old)
  <2>1. /\ Typed(o) /\ o.steps # <<>> /\ Head(o.steps) = "replace" /\ o = [old EXCEPT !.steps = Tail(old.steps)]
    BY <1>2, Advance DEF Follows, Is
  <2>2. o.ref = NoRef /\ o.fresh = old.fresh /\ op' = [op EXCEPT ![p] = o]
    BY <1>2, <1>5, <2>1 DEF Op, Then
  <2>. HIDE DEF o
  <2>3. Is(o, "replace") /\ ~Is(o, "drain") /\ ~Is(o, "select") /\ ~Is(o, "move")
    BY <2>1 DEF Is
  <2>4. Fits(o) /\ Held(o) = Held(old)
    BY <1>2, <1>3, <2>1, <2>2, <2>3 DEF Fits, Held
  <2>5. Secure(o, session', journal', keyring', used')
    BY <1>1, <1>3, <1>5, <2>3, <2>4 DEF Secure
  <2>6. GoesOn(op', op, p, o)
    BY <2>2 DEF GoesOn, Alone
  <2>7. Secrets(op', session', journal', keyring', used', lost')
    BY <1>1, <1>5, <2>3, <2>4, <2>5, <2>6, Assumed, Settled DEF Now
  <2>. QED  BY <2>7 DEF Now
<1>6. ASSUME NEW s \in old.olds \ ready, NEW r \in Ref \ used,
             keyring' = execute("Write", r), used' = used \union {r},
             \/ /\ op' = [op EXCEPT ![p].fresh = [t \in ready \union {s} |-> IF t = s THEN r ELSE old.fresh[t]]]
                /\ UNCHANGED lost
             \/ GiveUp(p) /\ lost' = lost \union {r}
      PROVE  Now'
  <2>1. keyring' = keyring \union {r}
    BY <1>6 DEF execute
  <2>2. CASE GiveUp(p) /\ lost' = lost \union {r}
    <3>1. {r} \subseteq Ref \ used
      OBVIOUS
    <3>. QED  BY <1>1, <1>2, <1>6, <2>1, <2>2, <3>1, GiveUpStep
  <2>3. CASE /\ op' = [op EXCEPT ![p].fresh = [t \in ready \union {s} |-> IF t = s THEN r ELSE old.fresh[t]]]
             /\ UNCHANGED lost
    <3> DEFINE f == [t \in ready \union {s} |-> IF t = s THEN r ELSE old.fresh[t]]
               o == [old EXCEPT !.fresh = f]
    <3>1. s \in Service
      BY <1>2 DEF Op
    <3>2. /\ f \in [ready \union {s} -> Ref] /\ DOMAIN f = ready \union {s} /\ DOMAIN f \in SUBSET Service
          /\ f[s] = r /\ \A t \in ready : f[t] = old.fresh[t]
      BY <1>3, <3>1
    <3>3. /\ o.fresh = f /\ o.steps = old.steps /\ o.ref = NoRef /\ op' = [op EXCEPT ![p] = o]
          /\ o.new = old.new /\ o.old = old.old
      BY <1>2, <2>3 DEF Op
    <3>4. o \in Op
      <4>1. f \in UNION {[S -> Ref] : S \in SUBSET Service}
        BY <3>2
      <4>. HIDE DEF f
      <4>. QED  BY <1>2, <4>1 DEF Op
    <3>. HIDE DEF o, f
    <3>5. Is(o, "protectOld") /\ ~Is(o, "drain") /\ ~Is(o, "select") /\ ~Is(o, "move")
      BY <1>2, <3>3 DEF Is
    <3>6. Held(o) = Held(old) \union {r}
      <4>1. Held(o) = {f[t] : t \in ready \union {s}}
        BY <3>2, <3>3, <3>5 DEF Held, Range, StoreAssumption
      <4>. QED  BY <1>3, <3>2, <4>1
    <3>7. Fits(o)
      <4>1. Typed(o)
        BY <1>2, <3>3, <3>4 DEF Typed
      <4>2. \A t, u \in DOMAIN f : f[t] = f[u] => t = u
        <5>1. \A t \in ready : f[t] \in used /\ f[t] # r
          BY <1>3, <3>2
        <5>. QED  BY <1>3, <3>2, <5>1
      <4>. QED  BY <3>3, <3>5, <4>1, <4>2 DEF Fits
    <3>8. Secure(o, session', journal', keyring', used')
      <4>1. r \notin Refs(session) \union journal
        BY Assumed
      <4>. QED  BY <1>1, <1>3, <1>6, <3>5, <3>6, <4>1 DEF Secure
    <3>9. GoesOn(op', op, p, o)
      BY <3>3 DEF GoesOn, Alone
    <3>10. Secrets(op', session', journal', keyring', used', lost')
      BY <1>1, <1>6, <2>1, <2>3, <3>5, <3>6, <3>7, <3>8, <3>9, Assumed, Settled DEF Now
    <3>. QED  BY <3>10 DEF Now
  <2>. QED  BY <1>6, <2>2, <2>3
<1>7. \/ Then(p, old) /\ UNCHANGED <<keyring, used, lost>>
      \/ \E s \in old.olds \ ready, r \in Ref \ used :
           /\ keyring' = execute("Write", r) /\ used' = used \union {r}
           /\ \/ /\ op' = [op EXCEPT ![p].fresh = [t \in ready \union {s} |-> IF t = s THEN r ELSE old.fresh[t]]]
                 /\ UNCHANGED lost
              \/ GiveUp(p) /\ lost' = lost \union {r}
      \/ GiveUp(p) /\ UNCHANGED <<keyring, used, lost>>
  BY DEF ProtectOldToken
<1>. QED  BY <1>4, <1>5, <1>6, <1>7

LEMMA ReplaceOldStep ==
    ASSUME StoreAssumption, Now, NEW p \in Proc, ReplaceOldTokens(p)
    PROVE  Now'
<1> DEFINE old == op[p]
           fresh == old.fresh
           x == [old EXCEPT !.fresh = Idle.fresh, !.olds = {}]
           o == After(x)
           S2 == [s \in Service |-> IF s \in DOMAIN fresh /\ session[s] = Plain THEN fresh[s] ELSE session[s]]
<1>1. At(p, "replace") /\ UNCHANGED <<keyring, used, lost>>
  BY DEF ReplaceOldTokens, Keep
<1>2. /\ Is(old, "replace") /\ ~Is(old, "drain") /\ old.ref = NoRef
      /\ Fits(old) /\ old \in Op /\ Typed(old) /\ old.steps # <<>>
  BY <1>1, AtIs DEF Is, Fits
<1>3. /\ fresh \in [DOMAIN fresh -> Ref] /\ Range(fresh) = Held(old)
      /\ \A s, t \in DOMAIN fresh : fresh[s] = fresh[t] => s = t
      /\ Held(old) \subseteq used /\ Held(old) \cap (Refs(session) \union journal) = {}
  <2>1. fresh \in [DOMAIN fresh -> Ref]
    BY <1>2 DEF Op
  <2>2. Held(old) = Range(fresh)
    BY <1>2, <2>1 DEF Held, Range, StoreAssumption
  <2>. QED  BY <1>2, <2>1, <2>2, Assumed DEF Secure, Fits
<1>4. CASE GiveUp(p) /\ UNCHANGED <<journal, session>>
  <2>1. {} \subseteq Ref \ used /\ keyring' = keyring \union {} /\ used' = used \union {} /\ lost' = lost \union {}
    BY <1>1
  <2>. QED  BY <1>2, <1>4, <2>1, GiveUpStep
<1>5. CASE /\ journal' = journal \union Range(fresh)
           /\ session' = S2
           /\ op' = Raced([op EXCEPT ![p] = After([@ EXCEPT !.fresh = Idle.fresh, !.olds = {}])], p)
  <2>1. op' = Raced([op EXCEPT ![p] = o], p)
    BY <1>5, Assumed
  <2>2. Typed(x) /\ Loose(x) /\ x.steps = old.steps
    <3>1. Idle.fresh \in UNION {[S -> Ref] : S \in SUBSET Service} /\ DOMAIN Idle.fresh = {}
      BY IdleIs DEF Op, Loose
    <3>2. x \in Op /\ x.steps = old.steps /\ x.new = old.new /\ x.old = old.old /\ x.ref = NoRef /\ x.fresh = Idle.fresh
      BY <1>2, <3>1 DEF Op
    <3>. HIDE DEF x
    <3>. QED  BY <1>2, <3>1, <3>2 DEF Typed, Loose
  <2>3. Quiet(o)
    <3>1. \A step \in {"unlist", "select", "protect", "protectOld", "look"} : ~Is(x, step)
      BY <1>2, <2>2 DEF Is
    <3>. QED  BY <1>2, <2>2, <3>1, QuietAfter
  <2>. HIDE DEF o, x
  <2>4. Fits(o) /\ Held(o) = {} /\ ~Is(o, "drain") /\ Secure(o, session', journal', keyring', used')
    BY <2>3, QuietFits, QuietSecure DEF Quiet
  <2>5. GoesOn(op', op, p, o) /\ Warns(op', op, p, o)
    BY <2>1 DEF GoesOn, Warns
  <2>6. /\ S2 \in [Service -> Ref \union {NoRef, Plain}]
        /\ Refs(S2) \subseteq Refs(session) \union Held(old) /\ Refs(session) \subseteq Refs(S2)
        /\ \A s, t \in Service : S2[s] \in Ref /\ S2[s] = S2[t] => s = t
    <3>1. ASSUME NEW s \in Service
          PROVE  \/ S2[s] = session[s]
                 \/ s \in DOMAIN fresh /\ S2[s] = fresh[s] /\ session[s] = Plain /\ S2[s] \in Held(old)
      BY <1>3, Assumed DEF Range
    <3>2. \A s \in Service : session[s] \in Ref => session[s] \in Refs(session) /\ session[s] # Plain
      BY DEF Refs, StoreAssumption
    <3>3. \A s \in Service : S2[s] \in Ref \union {NoRef, Plain}
      BY <1>3, <3>1, Assumed
    <3>4. ASSUME NEW s \in Service, NEW t \in Service, S2[s] \in Ref, S2[s] = S2[t] PROVE s = t
      BY <1>3, <3>1, <3>2, <3>4, Assumed
    <3>5. Refs(S2) \subseteq Refs(session) \union Held(old) /\ Refs(session) \subseteq Refs(S2)
      BY <3>1, <3>2 DEF Refs
    <3>6. S2 \in [Service -> Ref \union {NoRef, Plain}]
      BY <3>3
    <3>. QED  BY <3>4, <3>5, <3>6
  <2>. HIDE DEF S2
  <2>7. Secrets(op', session', journal', keyring', used', lost')
    BY <1>1, <1>3, <1>5, <2>4, <2>5, <2>6, Assumed, Settled DEF Now
  <2>. QED  BY <2>7 DEF Now
<1>. QED  BY <1>4, <1>5 DEF ReplaceOldTokens

LEMMA ProtectStep ==
    ASSUME StoreAssumption, Now, NEW p \in Proc, ProtectToken(p)
    PROVE  Now'
<1>1. At(p, "protect") /\ UNCHANGED <<session, journal>>
  BY DEF ProtectToken
<1>2. Is(op[p], "protect") /\ Typed(op[p]) /\ Loose(op[p]) /\ Held(op[p]) = {} /\ op[p].steps # <<>>
  BY <1>1, AtIs, LooseAt
<1>3. CASE Fail(p) /\ UNCHANGED <<keyring, used, lost>>
  BY <1>1, <1>2, <1>3, FailStep
<1>4. ASSUME NEW r \in Ref \ used, keyring' = execute("Write", r), used' = used \union {r},
             \/ Then(p, [op[p] EXCEPT !.ref = r]) /\ UNCHANGED lost
             \/ Fail(p) /\ lost' = lost \union {r}
      PROVE  Now'
  <2>1. keyring' = keyring \union {r} /\ r \notin Refs(session) \union journal
    BY <1>4, Assumed DEF execute
  <2>2. CASE Fail(p) /\ lost' = lost \union {r}
    <3> DEFINE o == Failed(op[p])
    <3>1. Quiet(o) /\ GoesOn(op', op, p, o)
      BY <2>2, Assumed, QuietFailed DEF Fail, GoesOn, Alone
    <3>. HIDE DEF o
    <3>2. Fits(o) /\ Held(o) = {} /\ ~Is(o, "drain") /\ Secure(o, session', journal', keyring', used')
      BY <3>1, QuietFits, QuietSecure DEF Quiet
    <3>3. Secrets(op', session', journal', keyring', used', lost')
      BY <1>1, <1>2, <1>4, <2>1, <2>2, <3>1, <3>2, Assumed, Settled DEF Now
    <3>. QED  BY <3>3 DEF Now
  <2>3. CASE Then(p, [op[p] EXCEPT !.ref = r]) /\ UNCHANGED lost
    <3> DEFINE x == [op[p] EXCEPT !.ref = r]
               o == After(x)
    <3>1. Typed(x) /\ x.steps = op[p].steps /\ x.ref = r /\ x.fresh = op[p].fresh
      BY <1>2 DEF Typed, Op
    <3>. HIDE DEF x
    <3>2. Typed(o) /\ o.steps # <<>> /\ Head(o.steps) = "insert" /\ o = [x EXCEPT !.steps = Tail(x.steps)]
      BY <1>2, <3>1, Advance DEF Follows, Is
    <3>3. o.ref = r /\ o.fresh = op[p].fresh /\ op' = [op EXCEPT ![p] = o]
      BY <2>3, <3>1, <3>2 DEF Typed, Op, Then, x
    <3>. HIDE DEF o
    <3>4. Is(o, "insert") /\ ~Is(o, "drain") /\ ~Is(o, "select") /\ ~Is(o, "move")
      BY <3>2 DEF Is
    <3>5. DOMAIN o.fresh = {} /\ Held(o) = {r} /\ Fits(o)
      BY <1>2, <3>2, <3>3, <3>4 DEF Loose, Held, Range, Fits
    <3>6. Secure(o, session', journal', keyring', used')
      BY <1>1, <1>4, <2>1, <3>4, <3>5 DEF Secure
    <3>7. GoesOn(op', op, p, o)
      BY <3>3 DEF GoesOn, Alone
    <3>8. Secrets(op', session', journal', keyring', used', lost')
      BY <1>1, <1>2, <1>4, <2>1, <2>3, <3>4, <3>5, <3>6, <3>7, Assumed, Settled DEF Now
    <3>. QED  BY <3>8 DEF Now
  <2>. QED  BY <1>4, <2>2, <2>3
<1>. QED  BY <1>3, <1>4 DEF ProtectToken

\* S2 has the session v, which it had not, and J2 queues the reference that v replaces.
Written(S2, J2, v) ==
    /\ S2 \in [Service -> Ref \union {NoRef, Plain}]
    /\ Refs(S2) \subseteq Refs(session) \union ({v} \cap Ref)
    /\ \A t, u \in Service : S2[t] \in Ref /\ S2[t] = S2[u] => t = u
    /\ J2 \subseteq journal \union Refs(session) /\ journal \subseteq J2
    /\ J2 \cap Refs(S2) \subseteq journal \cap Refs(session)
    /\ Refs(session) \union ({v} \cap Ref) \subseteq Refs(S2) \union J2

LEMMA RowWritten ==
    ASSUME StoreAssumption, Now, NEW s \in Service, NEW v \in Ref \union {NoRef}, v \notin Refs(session) \union journal
    PROVE  Written([session EXCEPT ![s] = v], journal \union ReplacedSecret(s), v)
<1> DEFINE S2 == [session EXCEPT ![s] = v]
           J2 == journal \union ReplacedSecret(s)
<1>1. /\ session \in [Service -> Ref \union {NoRef, Plain}]
      /\ \A t, u \in Service : session[t] \in Ref /\ session[t] = session[u] => t = u
  BY DEF Now, Secrets
<1>2. /\ S2 \in [Service -> Ref \union {NoRef, Plain}] /\ S2[s] = v
      /\ \A t \in Service : t # s => S2[t] = session[t]
      /\ \A t \in Service : session[t] \in Ref => session[t] # v
  BY <1>1 DEF Refs
<1>5. J2 \subseteq journal \union Refs(session) /\ J2 = journal \union ({session[s]} \cap Ref)
  BY DEF ReplacedSecret, Refs
<1>. HIDE DEF S2, J2
<1>3. ASSUME NEW t \in Service, NEW u \in Service, S2[t] \in Ref, S2[t] = S2[u] PROVE t = u
  BY <1>1, <1>2, <1>3
<1>4. Refs(S2) \subseteq Refs(session) \union ({v} \cap Ref)
  BY <1>2 DEF Refs
<1>6. ASSUME NEW r \in J2, r \in Refs(S2) PROVE r \in journal /\ r \in Refs(session)
  <2>1. PICK t \in Service : r = S2[t] /\ r \in Ref
    BY <1>6 DEF Refs
  <2>2. CASE r \in journal
    BY <1>2, <1>4, <1>6, <2>2
  <2>3. CASE r = session[s] /\ r \in Ref
    BY <1>1, <1>2, <2>1, <2>3
  <2>. QED  BY <1>5, <2>2, <2>3
<1>7. Refs(session) \union ({v} \cap Ref) \subseteq Refs(S2) \union J2
  <2>1. ASSUME NEW t \in Service, session[t] \in Ref PROVE session[t] \in Refs(S2) \union J2
    BY <1>2, <1>5, <2>1 DEF Refs
  <2>2. v \in Ref => v \in Refs(S2)
    BY <1>2 DEF Refs
  <2>. QED  BY <2>1, <2>2 DEF Refs
<1>8. Written(S2, J2, v)
  BY <1>2, <1>3, <1>4, <1>5, <1>6, <1>7 DEF Written
<1>. QED  BY <1>8 DEF S2, J2

\* A step that writes a session with what it holds, and goes on holding nothing.
LEMMA WriteStep ==
    ASSUME StoreAssumption, Now, NEW p \in Proc, NEW v, {v} \cap Ref = Held(op[p]),
           NEW o, Quiet(o), Alone(op', op, p, o), Written(session', journal', v),
           UNCHANGED <<keyring, used, lost>>
    PROVE  Now'
<1>2. Fits(o) /\ Held(o) = {} /\ ~Is(o, "drain") /\ Secure(o, session', journal', keyring', used')
  BY QuietFits, QuietSecure DEF Quiet
<1>3. GoesOn(op', op, p, o)
  BY DEF GoesOn
<1>4. /\ session' \in [Service -> Ref \union {NoRef, Plain}]
      /\ Refs(session') \subseteq Refs(session) \union Held(op[p])
      /\ \A t, u \in Service : session'[t] \in Ref /\ session'[t] = session'[u] => t = u
      /\ journal' \subseteq journal \union Refs(session) /\ journal \subseteq journal'
      /\ journal' \cap Refs(session') \subseteq journal \cap Refs(session)
      /\ Refs(session) \union Held(op[p]) \subseteq Refs(session') \union journal'
  BY DEF Written
<1>5. journal' \subseteq used' /\ keyring' \subseteq used'
  BY <1>4, Assumed
<1>6. Secrets(op', session', journal', keyring', used', lost')
  BY <1>2, <1>3, <1>4, <1>5, Assumed, Settled DEF Now
<1>. QED  BY <1>6 DEF Now

\* A step that saves, or removes a session, has its service.
LEMMA HasService ==
    ASSUME NEW o, Typed(o), NEW step, Is(o, step)
    PROVE  (step \in NewSteps => o.new \in Service) /\ (step \in OldSteps => o.old \in Service)
<1>1. o.steps \in Seq(Step) /\ o.steps # <<>> /\ o.steps[1] = step
  BY DEF Typed, Program, Is
<1>2. 1 \in 1 .. Len(o.steps)
  BY <1>1, LenProperties, EmptySeq
<1>3. (o.new = Nothing => step \notin NewSteps) /\ (o.old = Nothing => step \notin OldSteps)
  BY <1>1, <1>2 DEF Typed, Avoids
<1>. QED  BY <1>3 DEF Typed, Op

LEMMA Edited ==
    ASSUME NEW o, Typed(o), Loose(o), NEW b \in BOOLEAN, NEW c \in BOOLEAN, NEW rest \in {<<>>, <<"refresh">>},
           NEW x, x \in {o, [o EXCEPT !.changed = TRUE], [o EXCEPT !.hide = b], [o EXCEPT !.hide = b, !.all = c],
                         [o EXCEPT !.always = rest], [o EXCEPT !.ref = NoRef, !.changed = TRUE]}
    PROVE  Typed(x) /\ Loose(x) /\ x.steps = o.steps
<1>1. o \in Op /\ o.ref = NoRef
  BY DEF Typed, Loose
<1>2. x \in Op /\ x.steps = o.steps /\ x.new = o.new /\ x.old = o.old /\ x.ref = NoRef /\ x.fresh = o.fresh
  BY <1>1 DEF Op
<1>. QED  BY <1>2 DEF Typed, Loose

\* A step that reads, or that writes rows without their sessions.
LEMMA RowStep ==
    ASSUME StoreAssumption, Now, NEW p \in Proc, NEW step, At(p, step),
           step \in {"save", "clear", "delete", "hide", "hideOld", "mark", "move", "forget", "resolve", "free", "login"},
           UNCHANGED <<session, journal, keyring, used, lost>>,
           \/ Fail(p) \/ Then(p, op[p]) \/ Then(p, [op[p] EXCEPT !.changed = TRUE])
           \/ \E b \in BOOLEAN : Then(p, [op[p] EXCEPT !.hide = b])
           \/ \E b, c \in BOOLEAN : Then(p, [op[p] EXCEPT !.hide = b, !.all = c])
           \/ \E rest \in {<<>>, <<"refresh">>} : Then(p, [op[p] EXCEPT !.always = rest])
    PROVE  Now'
<1>1. Is(op[p], step) /\ Typed(op[p]) /\ Loose(op[p]) /\ Held(op[p]) = {} /\ op[p].steps # <<>>
  BY AtIs, LooseAt
<1>2. \A other \in {"unlist", "select", "protect", "protectOld", "look"} : ~Is(op[p], other)
  BY <1>1 DEF Is
<1>3. CASE Fail(p)
  BY <1>1, <1>3, FailStep
<1>4. ASSUME NEW x, Then(p, x), Typed(x) /\ Loose(x) /\ x.steps = op[p].steps
      PROVE  Now'
  BY <1>1, <1>2, <1>4, PlainStep
<1>5. CASE Then(p, op[p])
  BY <1>1, <1>4, <1>5
<1>6. CASE Then(p, [op[p] EXCEPT !.changed = TRUE])
  BY <1>1, <1>4, <1>6, Edited
<1>7. ASSUME NEW b \in BOOLEAN, Then(p, [op[p] EXCEPT !.hide = b])
      PROVE  Now'
  BY <1>1, <1>4, <1>7, Edited
<1>8. ASSUME NEW b \in BOOLEAN, NEW c \in BOOLEAN, Then(p, [op[p] EXCEPT !.hide = b, !.all = c])
      PROVE  Now'
  BY <1>1, <1>4, <1>8, Edited
<1>9. ASSUME NEW rest \in {<<>>, <<"refresh">>}, Then(p, [op[p] EXCEPT !.always = rest])
      PROVE  Now'
  BY <1>1, <1>4, <1>9, Edited
<1>. QED  BY <1>3, <1>5, <1>6, <1>7, <1>8, <1>9

LEMMA InsertStep ==
    ASSUME StoreAssumption, Now, NEW p \in Proc, InsertSession(p)
    PROVE  Now'
<1> DEFINE v == op[p].ref
           x == [op[p] EXCEPT !.ref = NoRef, !.changed = TRUE]
           o == After(x)
<1>1. At(p, "insert") /\ UNCHANGED <<keyring, used, lost>>
  BY DEF InsertSession, Keep
<1>2. /\ Is(op[p], "insert") /\ Typed(op[p]) /\ op[p] \in Op /\ op[p].steps # <<>> /\ op[p].new \in Service
      /\ ~Is(op[p], "drain") /\ DOMAIN op[p].fresh = {} /\ v \in Ref \union {NoRef}
  BY <1>1, AtIs, HasService DEF Is, Fits, Op, NewSteps
<1>3. {v} \cap Ref = Held(op[p])
  BY <1>2 DEF Held, Range
<1>4. v \notin Refs(session) \union journal
  BY <1>3, Assumed DEF Secure, StoreAssumption, Refs
<1>5. CASE GiveUp(p) /\ UNCHANGED <<journal, session>>
  <2>1. {} \subseteq Ref \ used /\ keyring' = keyring \union {} /\ used' = used \union {} /\ lost' = lost \union {}
    BY <1>1
  <2>. QED  BY <1>2, <1>5, <2>1, GiveUpStep
<1>6. CASE /\ journal' = journal \union ReplacedSecret(op[p].new)
           /\ session' = [session EXCEPT ![op[p].new] = v]
           /\ Then(p, x)
  <2>1. Typed(x) /\ Loose(x) /\ x.steps = op[p].steps
    <3>1. x \in Op /\ x.steps = op[p].steps /\ x.new = op[p].new /\ x.old = op[p].old /\ x.ref = NoRef /\ x.fresh = op[p].fresh
      BY <1>2 DEF Op
    <3>. HIDE DEF x
    <3>. QED  BY <1>2, <3>1 DEF Typed, Loose
  <2>. HIDE DEF x
  <2>2. \A step \in {"unlist", "select", "protect", "protectOld", "look"} : ~Is(x, step)
    BY <1>2, <2>1 DEF Is
  <2>3. Quiet(o)
    BY <1>2, <2>1, <2>2, QuietAfter
  <2>4. Alone(op', op, p, o)
    BY <1>6 DEF Then, Alone
  <2>. HIDE DEF o
  <2>5. Written(session', journal', v)
    BY <1>2, <1>4, <1>6, RowWritten
  <2>. QED  BY <1>1, <1>3, <2>3, <2>4, <2>5, WriteStep
<1>. QED  BY <1>5, <1>6 DEF InsertSession

\* The session of a service is removed, and what referred to its secret is queued.
LEMMA DropStep ==
    ASSUME StoreAssumption, Now, NEW p \in Proc, NEW step \in OldSteps, At(p, step),
           journal' = journal \union ReplacedSecret(op[p].old),
           session' = [session EXCEPT ![op[p].old] = NoRef],
           Then(p, [op[p] EXCEPT !.changed = TRUE]),
           UNCHANGED <<keyring, used, lost>>
    PROVE  Now'
<1> DEFINE x == [op[p] EXCEPT !.changed = TRUE]
           o == After(x)
<1>1. step \in {"clear", "delete"}
  BY DEF OldSteps
<1>2. /\ Is(op[p], step) /\ Typed(op[p]) /\ op[p].steps # <<>> /\ op[p].old \in Service
      /\ Loose(op[p]) /\ Held(op[p]) = {}
  BY <1>1, AtIs, LooseAt, HasService
<1>3. Typed(x) /\ Loose(x) /\ x.steps = op[p].steps
  BY <1>2, Edited
<1>. HIDE DEF x
<1>4. \A other \in {"unlist", "select", "protect", "protectOld", "look"} : ~Is(x, other)
  BY <1>1, <1>2, <1>3 DEF Is
<1>5. Quiet(o)
  BY <1>2, <1>3, <1>4, QuietAfter
<1>6. Alone(op', op, p, o)
  BY DEF Then, Alone, x
<1>. HIDE DEF o
<1>7. NoRef \notin Ref /\ NoRef \notin Refs(session) \union journal
  BY Assumed DEF StoreAssumption, Refs
<1>8. Written(session', journal', NoRef)
  BY <1>2, <1>7, RowWritten
<1>. QED  BY <1>2, <1>5, <1>6, <1>7, <1>8, WriteStep

-----------------------------------------------------------------------------
(* The order of the services *)

LEMMA InsertedOnce ==
    ASSUME NEW S, NEW q \in Seq(S), Once(q), NEW e \in S, ~InQueue(q, e), NEW k \in 1 .. Len(q) + 1
    PROVE  /\ InsertAt(q, k, e) \in Seq(S) /\ Once(InsertAt(q, k, e))
           /\ \A t \in S : InQueue(InsertAt(q, k, e), t) <=> InQueue(q, t) \/ t = e
<1> DEFINE a == SubSeq(q, 1, k - 1)
           b == SubSeq(q, k, Len(q))
           n == Len(q)
           x == <<e>>
           ax == a \o x
           r == ax \o b
<1>1. n \in Nat /\ DOMAIN q = 1 .. n /\ (\A i \in 1 .. n : q[i] \in S) /\ k \in Nat /\ k >= 1 /\ k <= n + 1
  BY DomainIs
<1>2. a \in Seq(S) /\ Len(a) = k - 1 /\ \A i \in 1 .. k - 1 : a[i] = q[i]
  <2>1. /\ 1 \in Int /\ k - 1 \in Int /\ \A i \in 1 .. k - 1 : q[i] \in S
        /\ (IF 1 <= k - 1 THEN (k - 1) - 1 + 1 ELSE 0) = k - 1 /\ (k - 1) - 1 + 1 = k - 1
    BY <1>1
  <2>2. /\ a \in Seq(S) /\ Len(a) = IF 1 <= k - 1 THEN (k - 1) - 1 + 1 ELSE 0
        /\ \A i \in 1 .. (k - 1) - 1 + 1 : a[i] = q[1 + i - 1]
    BY <2>1, SubSeqProperties
  <2>. HIDE DEF a
  <2>. QED  BY <1>1, <2>1, <2>2
<1>3. b \in Seq(S) /\ Len(b) = n - k + 1 /\ \A i \in 1 .. n - k + 1 : b[i] = q[k + i - 1]
  <2>1. k \in Int /\ n \in Int /\ (\A i \in k .. n : q[i] \in S) /\ (IF k <= n THEN n - k + 1 ELSE 0) = n - k + 1
    BY <1>1
  <2>2. /\ b \in Seq(S) /\ Len(b) = IF k <= n THEN n - k + 1 ELSE 0
        /\ \A i \in 1 .. n - k + 1 : b[i] = q[k + i - 1]
    BY <2>1, SubSeqProperties
  <2>. HIDE DEF b
  <2>. QED  BY <2>1, <2>2
<1>4. x \in Seq(S) /\ Len(x) = 1 /\ x[1] = e
  OBVIOUS
<1>. HIDE DEF a, b, x
<1>5. ax \in Seq(S) /\ Len(ax) = k /\ \A i \in 1 .. k : ax[i] = IF i <= k - 1 THEN q[i] ELSE e
  <2>1. /\ ax \in Seq(S) /\ Len(ax) = Len(a) + Len(x)
        /\ \A i \in 1 .. Len(a) + Len(x) : ax[i] = IF i <= Len(a) THEN a[i] ELSE x[i - Len(a)]
    BY <1>2, <1>4, ConcatProperties
  <2>. HIDE DEF ax
  <2>2. Len(a) + Len(x) = k
    BY <1>1, <1>2, <1>4
  <2>3. ASSUME NEW i \in 1 .. k PROVE ax[i] = IF i <= k - 1 THEN q[i] ELSE e
    <3>1. CASE i <= k - 1
      <4>1. i \in 1 .. k - 1 /\ i <= Len(a) /\ i \in 1 .. Len(a) + Len(x)
        BY <1>1, <1>2, <2>2, <3>1
      <4>2. ax[i] = a[i]
        BY <2>1, <4>1
      <4>. QED  BY <1>2, <3>1, <4>1, <4>2
    <3>2. CASE ~(i <= k - 1)
      <4>1. i - Len(a) = 1 /\ ~(i <= Len(a))
        BY <1>1, <1>2, <3>2
      <4>. QED  BY <1>4, <2>1, <2>2, <3>2, <4>1
    <3>. QED  BY <3>1, <3>2
  <2>. QED  BY <2>1, <2>2, <2>3
<1>. HIDE DEF ax
<1>6. /\ r \in Seq(S) /\ Len(r) = n + 1 /\ DOMAIN r = 1 .. n + 1
      /\ \A i \in 1 .. n + 1 : r[i] = IF i < k THEN q[i] ELSE IF i = k THEN e ELSE q[i - 1]
  <2>1. /\ r \in Seq(S) /\ Len(r) = k + (n - k + 1)
        /\ \A i \in 1 .. k + (n - k + 1) : r[i] = IF i <= k THEN ax[i] ELSE b[i - k]
    <3>1. ax \in Seq(S) /\ b \in Seq(S)
      BY <1>3, <1>5
    <3>2. /\ r \in Seq(S) /\ Len(r) = Len(ax) + Len(b)
          /\ \A i \in 1 .. Len(ax) + Len(b) : r[i] = IF i <= Len(ax) THEN ax[i] ELSE b[i - Len(ax)]
      BY <3>1, ConcatProperties
    <3>. HIDE DEF r
    <3>3. Len(ax) = k /\ Len(b) = n - k + 1
      BY <1>3, <1>5
    <3>. QED  BY <3>2, <3>3
  <2>2. DOMAIN r = 1 .. Len(r)
    BY <2>1, DomainIs
  <2>. HIDE DEF r
  <2>3. ASSUME NEW i \in 1 .. n + 1 PROVE r[i] = IF i < k THEN q[i] ELSE IF i = k THEN e ELSE q[i - 1]
    <3>1. CASE i <= k
      BY <1>1, <1>5, <2>1, <3>1
    <3>2. CASE ~(i <= k)
      <4>1. i - k \in 1 .. n - k + 1 /\ k + (i - k) - 1 = i - 1 /\ i \in 1 .. k + (n - k + 1)
        BY <1>1, <3>2
      <4>. QED  BY <1>1, <1>3, <2>1, <3>2, <4>1
    <3>. QED  BY <3>1, <3>2
  <2>. QED  BY <1>1, <2>1, <2>2, <2>3
<1>. HIDE DEF r, n
<1>7. /\ \A i, j \in 1 .. n : q[i] = q[j] => i = j
      /\ \A i \in 1 .. n : q[i] # e
      /\ \A t \in S : InQueue(q, t) <=> \E i \in 1 .. n : q[i] = t
      /\ \A t \in S : InQueue(r, t) <=> \E i \in 1 .. n + 1 : r[i] = t
      /\ Once(r) <=> \A i, j \in 1 .. n + 1 : r[i] = r[j] => i = j
  BY <1>1, <1>6 DEF Once, InQueue
<1>8. ASSUME NEW i \in 1 .. n + 1, NEW j \in 1 .. n + 1, r[i] = r[j]
      PROVE  i = j
  <2>1. ASSUME NEW l \in 1 .. n + 1
        PROVE  \/ l < k /\ l \in 1 .. n /\ r[l] = q[l]
               \/ l = k /\ r[l] = e
               \/ l > k /\ l - 1 \in 1 .. n /\ r[l] = q[l - 1]
    BY <1>1, <1>6
  <2>2. CASE i < k /\ j < k
    BY <1>7, <1>8, <2>1, <2>2
  <2>3. CASE i < k /\ j > k
    BY <1>1, <1>7, <1>8, <2>1, <2>3
  <2>4. CASE i > k /\ j < k
    BY <1>1, <1>7, <1>8, <2>1, <2>4
  <2>5. CASE i > k /\ j > k
    BY <1>1, <1>7, <1>8, <2>1, <2>5
  <2>6. CASE i = k \/ j = k
    BY <1>7, <1>8, <2>1, <2>6
  <2>. QED  BY <1>1, <2>2, <2>3, <2>4, <2>5, <2>6
<1>9. ASSUME NEW t \in S
      PROVE  (\E i \in 1 .. n + 1 : r[i] = t) <=> (\E i \in 1 .. n : q[i] = t) \/ t = e
  <2>1. ASSUME NEW i \in 1 .. n, q[i] = t PROVE \E j \in 1 .. n + 1 : r[j] = t
    <3>1. CASE i < k
      BY <1>1, <1>6, <2>1, <3>1
    <3>2. CASE ~(i < k)
      <4>1. i + 1 \in 1 .. n + 1 /\ ~(i + 1 < k) /\ i + 1 # k /\ (i + 1) - 1 = i
        BY <1>1, <3>2
      <4>. QED  BY <1>6, <2>1, <4>1
    <3>. QED  BY <3>1, <3>2
  <2>2. t = e => r[k] = t /\ k \in 1 .. n + 1
    BY <1>1, <1>6
  <2>3. ASSUME NEW i \in 1 .. n + 1, r[i] = t PROVE (\E j \in 1 .. n : q[j] = t) \/ t = e
    BY <1>1, <1>6, <2>3
  <2>. QED  BY <2>1, <2>2, <2>3
<1>10. r \in Seq(S) /\ Once(r) /\ \A t \in S : InQueue(r, t) <=> InQueue(q, t) \/ t = e
  BY <1>6, <1>7, <1>8, <1>9
<1>. QED  BY <1>10 DEF r, ax, a, b, x, n, InsertAt

Lists == list \in Seq(Service) /\ Once(list) /\ private \subseteq Service

\* The services someone sees who sees all, or not.
Seen(all) == IF all THEN Service ELSE Service \ private

LEMMA RangeIs ==
    ASSUME NEW S, NEW q \in Seq(S)
    PROVE  /\ \A t \in S : t \in Range(q) <=> InQueue(q, t)
           /\ Range(q) \subseteq S /\ Range(q) = {q[i] : i \in 1 .. Len(q)}
  BY DomainIs DEF Range, InQueue

LEMMA SavedOnce ==
    ASSUME Lists, NEW p \in Proc, NEW s \in Service, SaveRow(p, s)
    PROVE  Lists'
<1>1. /\ private' = private \union {s} \/ private' = private \ {s}
      /\ list' \in Upserted(s)
  BY DEF SaveRow
<1>2. s \in Range(list) <=> InQueue(list, s)
  BY RangeIs DEF Lists
<1>3. CASE s \in Range(list)
  BY <1>1, <1>3 DEF Lists, Upserted
<1>4. CASE s \notin Range(list)
  <2>1. PICK i \in 1 .. Len(list) + 1 : list' = InsertAt(list, i, s)
    BY <1>1, <1>4 DEF Upserted
  <2>. QED  BY <1>1, <1>2, <1>4, <2>1, InsertedOnce DEF Lists
<1>. QED  BY <1>3, <1>4

LEMMA TakenOnce ==
    ASSUME Lists, NEW K, list' = Subsequence(list, K), private' \subseteq private
    PROVE  Lists'
  BY SubsequenceProperties, SubsequenceOnce DEF Lists

\* The place among the visible services is the rank among them.
LEMMA SlotIs ==
    ASSUME Lists, NEW all \in BOOLEAN, NEW i \in KeptIn(list, Seen(all))
    PROVE  Slot(i, all) = Rank(list, Seen(all), i) + 1
<1> DEFINE K == Seen(all)
           below == {j \in KeptIn(list, K) : j < i}
           upto == {j \in 1 .. i : all \/ list[j] \notin private}
<1>1. Len(list) \in Nat /\ DOMAIN list = 1 .. Len(list) /\ \A j \in 1 .. Len(list) : list[j] \in Service
  BY DomainIs DEF Lists
<1>2. \A j \in 1 .. Len(list) : list[j] \in K <=> all \/ list[j] \notin private
  BY <1>1 DEF Seen
<1>3. i \in 1 .. Len(list) /\ (all \/ list[i] \notin private)
  BY <1>2 DEF KeptIn
<1>4. upto = below \union {i} /\ i \notin below
  BY <1>1, <1>2, <1>3 DEF KeptIn
<1>5. IsFiniteSet(below)
  <2>1. IsFiniteSet(1 .. Len(list)) /\ below \subseteq 1 .. Len(list)
    BY <1>1, FS_Interval DEF KeptIn
  <2>. QED  BY <2>1, FS_Subset
<1>6. Cardinality(upto) = Cardinality(below) + 1
  BY <1>4, <1>5, FS_AddElement
<1>. QED  BY <1>6 DEF Slot, Rank

LEMMA RangeCount ==
    ASSUME NEW S, NEW q \in Seq(S), Once(q)
    PROVE  Cardinality(Range(q)) = Len(q)
<1> DEFINE n == Len(q)
<1>1. n \in Nat /\ n \in 0 .. Len(q)
  BY DomainIs
<1>2. Range(q) = {q[m] : m \in 1 .. n}
  BY RangeIs
<1>. HIDE DEF n
<1> DEFINE T == {q[m] : m \in 1 .. n}
<1>3. T \subseteq S /\ IsFiniteSet(T) /\ Cardinality(T) = n
  <2>1. q \in Seq(S) /\ Once(q) /\ n \in 0..Len(q)
    BY <1>1
  <2>. QED  BY <2>1, HeadCount
<1>. QED  BY <1>2, <1>3 DEF n

\* Cards that are the visible services, in whatever order, fill the places of those.
LEMMA ReorderedOnce ==
    ASSUME Lists, NEW all \in BOOLEAN, NEW cards \in Seq(Service), Once(cards), Range(Listed(all)) = Range(cards),
           NEW L2, L2 = [i \in DOMAIN list |-> IF all \/ list[i] \notin private THEN cards[Slot(i, all)] ELSE list[i]]
    PROVE  L2 \in Seq(Service) /\ Once(L2) /\ Len(L2) = Len(list)
<1> DEFINE K == Seen(all)
           kept == KeptIn(list, K)
           n == Len(list)
           v == Listed(all)
<1>1. /\ n \in Nat /\ DOMAIN list = 1 .. n
      /\ \A j \in 1 .. n : list[j] \in Service
      /\ \A i, j \in 1 .. n : list[i] = list[j] => i = j
      /\ \A j \in 1 .. n : j \in kept <=> all \/ list[j] \notin private
      /\ kept \subseteq 1 .. n
  BY DomainIs DEF Lists, Once, KeptIn, Seen
<1>2. /\ v \in Seq(Service) /\ Once(v) /\ Len(v) = Cardinality(kept)
      /\ \A t \in Service : InQueue(v, t) <=> InQueue(list, t) /\ t \in K
  BY SubsequenceProperties, SubsequenceOnce DEF Lists, Listed, Seen
<1>3. Len(cards) = Len(v) /\ Len(v) \in Nat
  <2>. HIDE DEF v
  <2>1. Cardinality(Range(v)) = Len(v) /\ Cardinality(Range(cards)) = Len(cards) /\ Len(v) \in Nat
    BY <1>2, RangeCount, DomainIs
  <2>. QED  BY <2>1 DEF v
<1>4. ASSUME NEW i \in kept
      PROVE  /\ Slot(i, all) \in 1 .. Len(cards) /\ Slot(i, all) = Rank(list, K, i) + 1
             /\ Rank(list, K, i) \in Int
  <2>1. Rank(list, K, i) \in 0 .. Cardinality(kept) - 1
    BY EveryRank DEF Lists
  <2>2. Slot(i, all) = Rank(list, K, i) + 1
    BY SlotIs
  <2>. QED  BY <1>2, <1>3, <2>1, <2>2
<1>5. ASSUME NEW m \in 1 .. Len(cards)
      PROVE  cards[m] \in Service /\ cards[m] \in K
  <2>1. cards[m] \in Service /\ cards[m] \in Range(cards)
    BY RangeIs
  <2>. QED  BY <1>2, <2>1, RangeIs
<1>6. ASSUME NEW i \in 1 .. n
      PROVE  /\ i \in kept => L2[i] = cards[Slot(i, all)] /\ L2[i] \in Service /\ L2[i] \in K
             /\ i \notin kept => L2[i] = list[i] /\ L2[i] \in Service /\ L2[i] \notin K
  BY <1>1, <1>4, <1>5 DEF KeptIn
<1>7. L2 \in [1 .. n -> Service]
  BY <1>1, <1>6
<1>8. L2 \in Seq(Service) /\ Len(L2) = n /\ DOMAIN L2 = 1 .. n
  <2>1. L2 \in Seq(Service)
    BY <1>1, <1>7, SeqDef
  <2>2. DOMAIN L2 = 1 .. n
    BY <1>7
  <2>3. Len(L2) = n
    BY <1>1, <2>1, <2>2, LenProperties
  <2>. QED  BY <2>1, <2>2, <2>3
<1>9. ASSUME NEW i \in 1 .. n, NEW j \in 1 .. n, L2[i] = L2[j]
      PROVE  i = j
  <2>1. CASE i \in kept /\ j \in kept
    <3>1. Slot(i, all) = Slot(j, all)
      <4>1. DOMAIN cards = 1 .. Len(cards)
        BY DomainIs
      <4>2. cards[Slot(i, all)] = cards[Slot(j, all)]
        BY <1>6, <1>9, <2>1
      <4>. QED  BY <1>4, <2>1, <4>1, <4>2 DEF Once
    <3>2. Rank(list, K, i) = Rank(list, K, j)
      BY <1>4, <2>1, <3>1
    <3>3. /\ i < j => Rank(list, K, i) < Rank(list, K, j)
          /\ j < i => Rank(list, K, j) < Rank(list, K, i)
      BY <2>1, EveryRank DEF Lists
    <3>4. i \in Int /\ j \in Int
      OBVIOUS
    <3>. HIDE DEF K
    <3>. QED  BY <1>4, <2>1, <3>2, <3>3, <3>4
  <2>2. CASE i \notin kept /\ j \notin kept
    BY <1>1, <1>6, <1>9, <2>2
  <2>3. CASE ~(i \in kept <=> j \in kept)
    BY <1>6, <1>9, <2>3
  <2>. QED  BY <2>1, <2>2, <2>3
<1>. QED  BY <1>8, <1>9 DEF Once

\* Taking one service out leaves one place less.
LEMMA OneLess ==
    ASSUME NEW q \in Seq(Service), Once(q), NEW s \in Service, InQueue(q, s)
    PROVE  Len(q) = Len(Subsequence(q, Service \ {s})) + 1
<1> DEFINE n == Len(q)
           kept == KeptIn(q, Service \ {s})
<1>1. n \in Nat /\ DOMAIN q = 1 .. n /\ \A i \in 1 .. n : q[i] \in Service
  BY DomainIs
<1>2. PICK k \in 1 .. n : q[k] = s
  BY <1>1 DEF InQueue
<1>3. kept = (1 .. n) \ {k}
  BY <1>1, <1>2 DEF KeptIn, Once
<1>4. IsFiniteSet(1 .. n) /\ Cardinality(1 .. n) = n
  BY <1>1, FS_Interval
<1>5. Cardinality(kept) = n - 1
  BY <1>2, <1>3, <1>4, FS_RemoveElement
<1>6. Len(Subsequence(q, Service \ {s})) = Cardinality(kept)
  BY SubsequenceProperties
<1>. HIDE DEF n, kept
<1>7. n = Len(Subsequence(q, Service \ {s})) + 1
  BY <1>1, <1>5, <1>6
<1>. QED  BY <1>7 DEF n

LEMMA LookStep ==
    ASSUME StoreAssumption, Now, Lists, NEW p \in Proc, Look(p)
    PROVE  Now'
<1> DEFINE s == op[p].old
           seen == Listed(op[p].all)
           rest == Subsequence(seen, Service \ {s})
<1>1. At(p, "look") /\ UNCHANGED <<session, journal, keyring, used, lost>>
  BY DEF Look, Keep, store
<1>2. /\ Is(op[p], "look") /\ Typed(op[p]) /\ Loose(op[p]) /\ Held(op[p]) = {} /\ op[p].steps # <<>>
      /\ op[p] \in Op
  BY <1>1, AtIs, LooseAt
<1>3. CASE Fail(p)
  BY <1>1, <1>2, <1>3, FailStep
<1>4. CASE op' = [op EXCEPT ![p] = After(After(@))]
  <2> DEFINE x == After(op[p])
             o == After(x)
  <2>1. Typed(x) /\ x.steps # <<>> /\ Head(x.steps) = "move" /\ x = [op[p] EXCEPT !.steps = Tail(op[p].steps)]
    BY <1>2, Advance DEF Follows, Is
  <2>2. Loose(x)
    BY <1>2, <2>1 DEF Loose, Op
  <2>3. op' = [op EXCEPT ![p] = o]
    BY <1>4, Assumed
  <2>. HIDE DEF x
  <2>4. \A step \in {"unlist", "select", "protect", "protectOld", "look"} : ~Is(x, step)
    BY <2>1 DEF Is
  <2>5. Quiet(o)
    BY <2>1, <2>2, <2>4, QuietAfter
  <2>. HIDE DEF o
  <2>. QED  BY <1>1, <1>2, <2>3, <2>5, QuietStep
<1>5. ASSUME s \in Range(seen), NEW i \in 1 .. Len(seen), Then(p, [op[p] EXCEPT !.cards = InsertAt(rest, i, s)])
      PROVE  Now'
  <2> DEFINE cards == InsertAt(rest, i, s)
             x == [op[p] EXCEPT !.cards = cards]
             o == After(x)
  <2>1. seen \in Seq(Service) /\ Once(seen)
    BY SubsequenceProperties, SubsequenceOnce DEF Lists, Listed
  <2>2. s \in Service /\ InQueue(seen, s)
    BY <1>5, <2>1, RangeIs
  <2>. HIDE DEF seen
  <2>3. rest \in Seq(Service) /\ Once(rest) /\ ~InQueue(rest, s) /\ Len(seen) = Len(rest) + 1
    BY <2>1, <2>2, SubsequenceProperties, SubsequenceOnce, OneLess
  <2>. HIDE DEF rest, s
  <2>4. cards \in Seq(Service) /\ Once(cards)
    BY <2>2, <2>3, InsertedOnce
  <2>5. op' = [op EXCEPT ![p] = o]
    BY <1>5 DEF Then
  <2>. HIDE DEF cards
  <2>6. Typed(x) /\ Loose(x) /\ x.steps = op[p].steps /\ x.cards = cards
    <3>1. x \in Op /\ x.steps = op[p].steps /\ x.new = op[p].new /\ x.old = op[p].old /\ x.cards = cards
          /\ x.ref = op[p].ref /\ x.fresh = op[p].fresh
      BY <1>2, <2>4 DEF Op
    <3>. HIDE DEF x
    <3>. QED  BY <1>2, <3>1 DEF Typed, Loose
  <2>. HIDE DEF x
  <2>7. Typed(o) /\ o.steps # <<>> /\ Head(o.steps) = "move" /\ o = [x EXCEPT !.steps = Tail(x.steps)]
    BY <1>2, <2>6, Advance DEF Follows, Is
  <2>8. Loose(o) /\ o.cards = cards
    BY <2>6, <2>7 DEF Loose, Typed, Op
  <2>. HIDE DEF o
  <2>9. Is(o, "move") /\ ~Is(o, "drain") /\ ~Is(o, "select")
    BY <2>7 DEF Is
  <2>10. Fits(o) /\ Held(o) = {}
    BY <2>4, <2>7, <2>8, NothingHeld DEF Fits, Loose
  <2>11. Secure(o, session', journal', keyring', used')
    BY <2>9, <2>10 DEF Secure
  <2>12. GoesOn(op', op, p, o)
    BY <2>5 DEF GoesOn, Alone
  <2>13. Secrets(op', session', journal', keyring', used', lost')
    BY <1>1, <1>2, <2>9, <2>10, <2>11, <2>12, Assumed, Settled DEF Now
  <2>. QED  BY <2>13 DEF Now
<1>. QED  BY <1>3, <1>4, <1>5 DEF Look

\* Any step of an operation keeps the secrets.
LEMMA SecretsStep ==
    ASSUME StoreAssumption, Now, Lists, NEW p \in Proc, StoreStep(p)
    PROVE  Now'
<1>1. CASE initializeSessionTokenCleanup(p)
  BY <1>1, InitializeStep
<1>2. CASE protectLegacySessionTokens(p)
  BY <1>2, ReadOldStep, ProtectOldStep, ReplaceOldStep DEF protectLegacySessionTokens
<1>3. CASE collectUnusedSessionCredentials(p)
  BY <1>3, UnlistStep, SelectStep, RemoveStep, StrikeStep, DrainedStep DEF collectUnusedSessionCredentials
<1>4. CASE Discard(p)
  BY <1>4, DiscardStep
<1>5. CASE saveServer(p)
  <2>1. /\ At(p, "save") /\ UNCHANGED <<session, journal, keyring, used, lost>>
        /\ Then(p, [op[p] EXCEPT !.changed = TRUE]) \/ Fail(p)
    BY <1>5 DEF saveServer, Keep
  <2>. QED  BY <2>1, RowStep
<1>6. CASE saveSession(p)
  BY <1>6, ProtectStep, InsertStep DEF saveSession
<1>7. CASE clearServerSession(p)
  <2>1. /\ At(p, "clear") /\ UNCHANGED <<keyring, used, lost>>
        /\ \/ /\ journal' = journal \union ReplacedSecret(op[p].old) /\ session' = [session EXCEPT ![op[p].old] = NoRef]
              /\ Then(p, [op[p] EXCEPT !.changed = TRUE])
           \/ Fail(p) /\ UNCHANGED <<journal, session>>
    BY <1>7 DEF clearServerSession, Keep
  <2>2. "clear" \in OldSteps
    BY DEF OldSteps
  <2>. QED  BY <2>1, <2>2, DropStep, RowStep
<1>8. CASE DeleteRows(p)
  <2>1. /\ At(p, "delete") /\ UNCHANGED <<keyring, used, lost>>
        /\ \/ /\ journal' = journal \union ReplacedSecret(op[p].old) /\ session' = [session EXCEPT ![op[p].old] = NoRef]
              /\ Then(p, [op[p] EXCEPT !.changed = TRUE])
           \/ Fail(p) /\ UNCHANGED <<journal, session>>
    BY <1>8 DEF DeleteRows, Keep
  <2>2. "delete" \in OldSteps
    BY DEF OldSteps
  <2>. QED  BY <2>1, <2>2, DropStep, RowStep
<1>9. CASE HideRow(p)
  <2>1. /\ At(p, "hide") \/ At(p, "hideOld")
        /\ UNCHANGED <<session, journal, keyring, used, lost>>
        /\ Then(p, [op[p] EXCEPT !.changed = TRUE]) \/ Then(p, op[p]) \/ Fail(p)
    BY <1>9 DEF HideRow, Keep
  <2>. QED  BY <2>1, RowStep
<1>10. CASE setServerPrivateMode(p)
  <2>1. /\ At(p, "mark") /\ UNCHANGED <<session, journal, keyring, used, lost>>
        /\ Then(p, [op[p] EXCEPT !.changed = TRUE]) \/ Fail(p)
    BY <1>10 DEF setServerPrivateMode, Keep
  <2>. QED  BY <2>1, RowStep
<1>11. CASE Look(p)
  BY <1>11, LookStep
<1>12. CASE Reorder(p)
  <2>1. /\ At(p, "move") /\ UNCHANGED <<session, journal, keyring, used, lost>>
        /\ Then(p, [op[p] EXCEPT !.changed = TRUE]) \/ Fail(p)
    BY <1>12 DEF Reorder, Keep
  <2>. QED  BY <2>1, RowStep
<1>13. CASE deletePassword(p)
  <2>1. /\ At(p, "forget") /\ UNCHANGED <<session, journal, keyring, used, lost>>
        /\ Then(p, op[p]) \/ Fail(p)
    BY <1>13 DEF deletePassword, Keep, store
  <2>. QED  BY <2>1, RowStep
<1>14. CASE Resolve(p)
  <2>1. /\ At(p, "resolve") /\ UNCHANGED <<session, journal, keyring, used, lost>>
        /\ Then(p, [op[p] EXCEPT !.hide = op[p].old \in private, !.all = op[p].old \in private]) \/ Fail(p)
    BY <1>14 DEF Resolve, Keep, store
  <2>2. (op[p].old \in private) \in BOOLEAN
    OBVIOUS
  <2>. QED  BY <2>1, <2>2, RowStep
<1>15. CASE NotTaken(p)
  <2>1. /\ At(p, "free") /\ UNCHANGED <<session, journal, keyring, used, lost>>
        /\ (\E b \in BOOLEAN : Then(p, [op[p] EXCEPT !.hide = b])) \/ Fail(p)
    BY <1>15 DEF NotTaken, Keep, store
  <2>. QED  BY <2>1, RowStep
<1>16. CASE Answered(p)
  <2>1. /\ At(p, "login") /\ UNCHANGED <<session, journal, keyring, used, lost>>
        /\ (\E rest \in {<<>>, <<"refresh">>} : Then(p, [op[p] EXCEPT !.always = rest])) \/ Fail(p)
    BY <1>16 DEF Answered, Keep, store
  <2>. QED  BY <2>1, RowStep
<1>. QED
  BY <1>1, <1>2, <1>3, <1>4, <1>5, <1>6, <1>7, <1>8, <1>9, <1>10, <1>11, <1>12, <1>13, <1>14, <1>15, <1>16
  DEF StoreStep, deleteServer, moveServerTo

\* Any step of an operation keeps the order of the services an order.
LEMMA ListsStep ==
    ASSUME StoreAssumption, Now, Lists, NEW p \in Proc, StoreStep(p)
    PROVE  Lists'
<1>. DEFINE Kept == UNCHANGED <<list, private>>
<1>1. CASE Kept
  BY <1>1 DEF Lists
<1>2. initializeSessionTokenCleanup(p) => Kept
  BY DEF initializeSessionTokenCleanup
<1>3. protectLegacySessionTokens(p) => Kept
  BY DEF protectLegacySessionTokens, ReadOldTokens, ProtectOldToken, ReplaceOldTokens, store
<1>4. collectUnusedSessionCredentials(p) => Kept
  BY DEF collectUnusedSessionCredentials, Unlist, Select, RemoveSecret, Strike, Drained, store
<1>5. Discard(p) \/ clearServerSession(p) \/ deletePassword(p) \/ Resolve(p) \/ NotTaken(p) \/ Answered(p) \/ Look(p) => Kept
  BY DEF Discard, clearServerSession, deletePassword, Resolve, NotTaken, Answered, Look, store
<1>6. CASE saveServer(p)
  <2>1. CASE SaveRow(p, op[p].new)
    <3>1. op[p].new \in Service
      BY <1>6, AtIs, HasService DEF saveServer, NewSteps
    <3>. QED  BY <2>1, <3>1, SavedOnce
  <2>. QED  BY <1>1, <1>6, <2>1 DEF saveServer
<1>7. CASE saveSession(p)
  <2>1. CASE InsertSession(p) /\ SaveRow(p, op[p].new)
    <3>1. op[p].new \in Service
      BY <2>1, AtIs, HasService DEF InsertSession, NewSteps
    <3>. QED  BY <2>1, <3>1, SavedOnce
  <2>2. ProtectToken(p) => Kept
    BY DEF ProtectToken
  <2>3. InsertSession(p) => SaveRow(p, op[p].new) \/ Kept
    BY DEF InsertSession
  <2>. QED  BY <1>1, <1>7, <2>1, <2>2, <2>3 DEF saveSession
<1>8. CASE DeleteRows(p)
  <2>1. (list' = Subsequence(list, Service \ {op[p].old}) /\ private' \subseteq private) \/ Kept
    BY <1>8 DEF DeleteRows
  <2>. QED  BY <1>1, <2>1, TakenOnce
<1>9. CASE HideRow(p)
  <2>1. private' = private /\ (list' = Subsequence(list, Service \ {op[p].old}) \/ list' = list)
    BY <1>9 DEF HideRow
  <2>. QED  BY <1>1, <2>1, TakenOnce
<1>10. CASE setServerPrivateMode(p)
  <2>1. list' = list /\ private' \subseteq private \union Range(list)
    BY <1>10 DEF setServerPrivateMode
  <2>2. Range(list) \subseteq Service
    BY RangeIs DEF Lists
  <2>. QED  BY <2>1, <2>2 DEF Lists
<1>11. CASE Reorder(p)
  <2> DEFINE all == op[p].all
             cards == op[p].cards
             L2 == [i \in DOMAIN list |-> IF all \/ list[i] \notin private THEN cards[Slot(i, all)] ELSE list[i]]
  <2>1. private' = private /\ ((Range(Listed(all)) = Range(cards) /\ list' = L2) \/ list' = list)
    BY <1>11 DEF Reorder
  <2>2. all \in BOOLEAN /\ cards \in Seq(Service) /\ Once(cards)
    BY <1>11, AtIs DEF Reorder, Fits, Op
  <2>. HIDE DEF all, cards
  <2>3. Range(Listed(all)) = Range(cards) => L2 \in Seq(Service) /\ Once(L2)
    BY <2>2, ReorderedOnce
  <2>. HIDE DEF L2
  <2>. QED  BY <2>1, <2>3 DEF Lists
<1>. QED
  BY <1>1, <1>2, <1>3, <1>4, <1>5, <1>6, <1>7, <1>8, <1>9, <1>10, <1>11 DEF StoreStep, deleteServer, moveServerTo

\* A step of p leaves the programs of the others alone; p remembers that it changed what cards show.
Elsewhere(p) ==
    /\ \A q \in Proc : q # p => op'[q].steps = op[q].steps /\ op'[q].changed = op[q].changed
    /\ op[p].changed => op'[p].changed
    /\ op'[p].changed \/ Content' = Content

LEMMA NextChanged ==
    ASSUME NEW o \in Op
    PROVE  /\ After(o).changed = o.changed /\ Failed(o).changed = o.changed
           /\ \A v : /\ After([o EXCEPT !.raced = v]).changed = o.changed
                     /\ After([o EXCEPT !.todo = v]).changed = o.changed
                     /\ After([o EXCEPT !.ref = v]).changed = o.changed
                     /\ After([o EXCEPT !.cards = v]).changed = o.changed
                     /\ [o EXCEPT !.fresh = v].changed = o.changed
                     /\ [o EXCEPT !.ref = v].changed = o.changed
                     /\ [o EXCEPT !.steps = v].changed = o.changed
           /\ After(After(o)).changed = o.changed
           /\ After([o EXCEPT !.changed = TRUE]).changed
           /\ After([o EXCEPT !.ref = NoRef, !.changed = TRUE]).changed
  BY DEF After, Failed, Op, Idle

LEMMA Local ==
    ASSUME Now, NEW p \in Proc, NEW y, op' = [op EXCEPT ![p] = y] \/ op' = Raced([op EXCEPT ![p] = y], p),
           y.changed \/ (y.changed = op[p].changed /\ Content' = Content)
    PROVE  Elsewhere(p)
<1>1. op \in [Proc -> Op]
  BY Assumed
<1>2. op'[p] = y
  BY <1>1 DEF Raced
<1>3. ASSUME NEW q \in Proc, q # p
      PROVE  op'[q].steps = op[q].steps /\ op'[q].changed = op[q].changed
  <2>1. op'[q] = op[q] \/ op'[q] = [op[q] EXCEPT !.raced = TRUE]
    BY <1>1, <1>3 DEF Raced
  <2>. QED  BY <1>1, <2>1 DEF Op
<1>. QED  BY <1>2, <1>3 DEF Elsewhere

LEMMA ElsewhereStep ==
    ASSUME StoreAssumption, Now, Lists, NEW p \in Proc, StoreStep(p)
    PROVE  Elsewhere(p)
<1>. DEFINE o == op[p]
            Rows == UNCHANGED <<list, private, session>>
<1>1. op \in [Proc -> Op] /\ o \in Op /\ session \in [Service -> Ref \union {NoRef, Plain}]
  BY Assumed
<1>2. Rows => Content' = Content
  BY DEF Content
<1>3. ASSUME Rows, NEW y, op' = [op EXCEPT ![p] = y], y.changed = o.changed
      PROVE  Elsewhere(p)
  BY <1>2, <1>3, Local
<1>4. ASSUME NEW y, op' = [op EXCEPT ![p] = y], y.changed
      PROVE  Elsewhere(p)
  BY <1>4, Local
<1>5. CASE Fail(p) /\ Rows
  BY <1>1, <1>3, <1>5, NextChanged DEF Fail
<1>6. CASE GiveUp(p) /\ Rows
  <2>1. op' = [op EXCEPT ![p] = [o EXCEPT !.steps = <<"discard">>]]
    BY <1>1, <1>6 DEF GiveUp
  <2>. QED  BY <1>1, <1>3, <1>6, <2>1, NextChanged
<1>7. CASE Then(p, o) /\ Rows
  BY <1>1, <1>3, <1>7, NextChanged DEF Then
<1>8. CASE Then(p, [o EXCEPT !.changed = TRUE]) \/ Then(p, [o EXCEPT !.ref = NoRef, !.changed = TRUE])
  BY <1>1, <1>4, <1>8, NextChanged DEF Then
<1>9. CASE initializeSessionTokenCleanup(p)
  <2>1. Rows
    BY <1>9 DEF initializeSessionTokenCleanup
  <2>2. CASE op' = Raced([op EXCEPT ![p] = After(@)], p)
    <3>1. op' = Raced([op EXCEPT ![p] = After(o)], p)
      BY <1>1, <2>2
    <3>. QED  BY <1>1, <1>2, <2>1, <3>1, NextChanged, Local
  <2>. QED  BY <1>5, <1>9, <2>1, <2>2 DEF initializeSessionTokenCleanup
<1>10. CASE ReadOldTokens(p)
  <2>1. Rows
    BY <1>10 DEF ReadOldTokens, store
  <2>2. ASSUME NEW olds, NEW steps, op' = [op EXCEPT ![p].olds = olds, ![p].steps = steps]
        PROVE  Elsewhere(p)
    <3>1. op' = [op EXCEPT ![p] = [o EXCEPT !.olds = olds, !.steps = steps]]
      BY <1>1, <2>2
    <3>2. [o EXCEPT !.olds = olds, !.steps = steps].changed = o.changed
      BY <1>1 DEF Op
    <3>. QED  BY <1>3, <2>1, <3>1, <3>2
  <2>3. \/ Fail(p) \/ Then(p, o)
        \/ \E olds, steps : op' = [op EXCEPT ![p].olds = olds, ![p].steps = steps]
    BY <1>1, <1>10 DEF ReadOldTokens
  <2>. QED  BY <1>5, <1>7, <2>1, <2>2, <2>3
<1>11. CASE ProtectOldToken(p)
  <2>1. Rows
    BY <1>11 DEF ProtectOldToken
  <2>2. ASSUME NEW f, op' = [op EXCEPT ![p].fresh = f]
        PROVE  Elsewhere(p)
    <3>1. op' = [op EXCEPT ![p] = [o EXCEPT !.fresh = f]]
      BY <1>1, <2>2
    <3>. QED  BY <1>1, <1>3, <2>1, <3>1, NextChanged
  <2>3. GiveUp(p) \/ Then(p, o) \/ \E f : op' = [op EXCEPT ![p].fresh = f]
    BY <1>11 DEF ProtectOldToken
  <2>. QED  BY <1>6, <1>7, <2>1, <2>2, <2>3
<1>12. CASE ReplaceOldTokens(p)
  <2> DEFINE fresh == o.fresh
             S2 == [s \in Service |-> IF s \in DOMAIN fresh /\ session[s] = Plain THEN fresh[s] ELSE session[s]]
             y == After([o EXCEPT !.fresh = Idle.fresh, !.olds = {}])
  <2>1. \/ GiveUp(p) /\ Rows
        \/ session' = S2 /\ UNCHANGED <<list, private>> /\ op' = Raced([op EXCEPT ![p] = y], p)
    BY <1>1, <1>12 DEF ReplaceOldTokens
  <2>2. fresh \in [DOMAIN fresh -> Ref] /\ y.changed = o.changed
    <3>1. y.changed = o.changed
      BY <1>1 DEF After, Idle, Op
    <3>. QED  BY <1>1, <3>1 DEF Op
  <2>3. ASSUME session' = S2, UNCHANGED <<list, private>>
        PROVE  Content' = Content
    <3>1. \A s \in Service : session'[s] # NoRef <=> session[s] # NoRef
      BY <1>1, <2>2, <2>3 DEF StoreAssumption
    <3>2. \A i \in DOMAIN list : list[i] \in Service
      BY DomainIs DEF Lists
    <3>3. \A i \in DOMAIN list : (session'[list[i]] # NoRef) = (session[list[i]] # NoRef)
      BY <3>1, <3>2
    <3>. QED  BY <2>3, <3>3 DEF Content
  <2>. HIDE DEF y, S2
  <2>. QED  BY <1>6, <2>1, <2>2, <2>3, Local
<1>13. CASE collectUnusedSessionCredentials(p)
  <2>1. Rows
    BY <1>13 DEF collectUnusedSessionCredentials, Unlist, Select, RemoveSecret, Strike, Drained, store
  <2>2. CASE Then(p, [o EXCEPT !.raced = FALSE]) \/ Then(p, [o EXCEPT !.todo = journal])
    BY <1>1, <1>3, <2>1, <2>2, NextChanged DEF Then
  <2>3. ASSUME NEW r, NEW todo, op' = [op EXCEPT ![p].ref = r, ![p].todo = todo]
        PROVE  Elsewhere(p)
    <3>1. op' = [op EXCEPT ![p] = [o EXCEPT !.ref = r, !.todo = todo]]
      BY <1>1, <2>3
    <3>2. [o EXCEPT !.ref = r, !.todo = todo].changed = o.changed
      BY <1>1 DEF Op
    <3>. QED  BY <1>3, <2>1, <3>1, <3>2
  <2>4. CASE op' = [op EXCEPT ![p].ref = NoRef]
    <3>1. op' = [op EXCEPT ![p] = [o EXCEPT !.ref = NoRef]]
      BY <1>1, <2>4
    <3>. QED  BY <1>1, <1>3, <2>1, <3>1, NextChanged
  <2>5. \/ Fail(p) \/ Then(p, o) \/ Then(p, [o EXCEPT !.raced = FALSE]) \/ Then(p, [o EXCEPT !.todo = journal])
        \/ op' = [op EXCEPT ![p].ref = NoRef]
        \/ \E r, todo : op' = [op EXCEPT ![p].ref = r, ![p].todo = todo]
    <3>1. ASSUME NEW r, op' = [op EXCEPT ![p].ref = r, ![p].todo = @ \ {r}]
          PROVE  op' = [op EXCEPT ![p].ref = r, ![p].todo = o.todo \ {r}]
      BY <1>1, <3>1
    <3>. QED  BY <1>13, <3>1 DEF collectUnusedSessionCredentials, Unlist, Select, RemoveSecret, Strike, Drained
  <2>. QED  BY <1>5, <1>7, <2>1, <2>2, <2>3, <2>4, <2>5
<1>14. CASE Discard(p)
  BY <1>5, <1>14 DEF Discard
<1>15. CASE saveServer(p)
  BY <1>5, <1>8, <1>15 DEF saveServer
<1>16. CASE ProtectToken(p)
  <2>1. Rows
    BY <1>16 DEF ProtectToken
  <2>2. ASSUME NEW r, Then(p, [o EXCEPT !.ref = r])
        PROVE  Elsewhere(p)
    BY <1>1, <1>3, <2>1, <2>2, NextChanged DEF Then
  <2>. QED  BY <1>5, <1>16, <2>1, <2>2 DEF ProtectToken
<1>17. CASE InsertSession(p)
  BY <1>6, <1>8, <1>17 DEF InsertSession
<1>18. CASE clearServerSession(p) \/ DeleteRows(p)
  BY <1>5, <1>8, <1>18 DEF clearServerSession, DeleteRows
<1>19. CASE HideRow(p)
  BY <1>5, <1>7, <1>8, <1>19 DEF HideRow
<1>20. CASE setServerPrivateMode(p) \/ Reorder(p)
  BY <1>5, <1>8, <1>20 DEF setServerPrivateMode, Reorder
<1>21. CASE Look(p)
  <2>1. Rows
    BY <1>21 DEF Look, store
  <2>2. ASSUME NEW cards, Then(p, [o EXCEPT !.cards = cards])
        PROVE  Elsewhere(p)
    BY <1>1, <1>3, <2>1, <2>2, NextChanged DEF Then
  <2>3. CASE op' = [op EXCEPT ![p] = After(After(@))]
    <3>1. op' = [op EXCEPT ![p] = After(After(o))]
      BY <1>1, <2>3
    <3>. QED  BY <1>1, <1>3, <2>1, <3>1, NextChanged
  <2>. QED  BY <1>5, <1>21, <2>1, <2>2, <2>3 DEF Look
<1>22. CASE deletePassword(p) \/ Resolve(p) \/ NotTaken(p) \/ Answered(p)
  <2>1. Rows
    BY <1>22 DEF deletePassword, Resolve, NotTaken, Answered, store
  <2>2. ASSUME NEW v, NEW w, \/ Then(p, [o EXCEPT !.hide = v, !.all = w]) \/ Then(p, [o EXCEPT !.hide = v])
                             \/ Then(p, [o EXCEPT !.always = v])
        PROVE  Elsewhere(p)
    <3>1. /\ After([o EXCEPT !.hide = v, !.all = w]).changed = o.changed /\ After([o EXCEPT !.hide = v]).changed = o.changed
          /\ After([o EXCEPT !.always = v]).changed = o.changed
      BY <1>1 DEF After, Idle, Op
    <3>. QED  BY <1>3, <2>1, <2>2, <3>1 DEF Then
  <2>3. \/ Fail(p) \/ Then(p, o)
        \/ \E v, w : \/ Then(p, [o EXCEPT !.hide = v, !.all = w]) \/ Then(p, [o EXCEPT !.hide = v])
                     \/ Then(p, [o EXCEPT !.always = v])
    BY <1>22 DEF deletePassword, Resolve, NotTaken, Answered
  <2>. QED  BY <1>5, <1>7, <2>1, <2>2, <2>3
<1>. QED
  BY <1>9, <1>10, <1>11, <1>12, <1>13, <1>14, <1>15, <1>16, <1>17, <1>18, <1>19, <1>20, <1>21, <1>22
  DEF StoreStep, protectLegacySessionTokens, saveSession, deleteServer, moveServerTo

-----------------------------------------------------------------------------
(* What operations begin with *)

LEMMA Programmed ==
    ASSUME NEW o \in Op, Loose(o), Block(o.steps),
           o.new = Nothing => Avoids(o.steps, NewSteps), o.old = Nothing => Avoids(o.steps, OldSteps)
    PROVE  Quiet(o)
<1>1. o.steps \in Seq(Step) /\ Program(o.steps)
  BY DEF Block, Program
<1>2. \A step \in {"select", "drain", "insert", "replace", "move"} : ~Is(o, step)
  BY <1>1 DEF Is, Block, Opens
<1>. QED  BY <1>1, <1>2 DEF Quiet, Typed

LEMMA IdleQuiet == ASSUME StoreAssumption PROVE Quiet(Idle)
  BY IdleIs, Pieces DEF Quiet, Typed, Is, Block

\* The next operation of p, which was at rest.
LEMMA BegunStep ==
    ASSUME StoreAssumption, Now, NEW p \in Proc, ~Working(p), NEW o, Quiet(o), op' = [op EXCEPT ![p] = o],
           UNCHANGED <<session, journal, keyring, used, lost>>
    PROVE  Now'
<1>1. op[p].steps = <<>>
  BY DEF Working
<1>2. Loose(op[p])
  BY <1>1, Assumed DEF Fits, Is, Loose
<1>. QED  BY <1>2, NothingHeld, QuietStep

LEMMA StartIs == Block(Start) /\ Avoids(Start, NewSteps) /\ Avoids(Start, OldSteps)
  BY Pieces, Joined DEF Start

LEMMA RemoveServiceIs == Block(RemoveService) /\ Avoids(RemoveService, NewSteps)
<1>1. Block(<<"forget", "clear">> \o Collect) /\ Avoids(<<"forget", "clear">> \o Collect, NewSteps)
  BY Pieces, Joined
<1>2. Block(<<"hide">>) /\ Avoids(<<"hide">>, NewSteps)
  BY Pieces
<1>. QED  BY <1>1, <1>2, Joined DEF RemoveService

LEMMA CommandStarts ==
    ASSUME StoreAssumption, NEW p \in Proc, Command(p)
    PROVE  /\ p # Gui /\ ~Working(p) /\ UNCHANGED <<store, used, crashes, lost>>
           /\ \E o : Quiet(o) /\ op' = [op EXCEPT ![p] = o]
<1>1. ASSUME NEW old \in Service \union {Nothing}, NEW new \in Service \union {Nothing}, NEW steps, Block(steps),
             new = Nothing => Avoids(steps, NewSteps), old = Nothing => Avoids(steps, OldSteps),
             Begin(p, old, new, steps)
      PROVE  /\ ~Working(p) /\ UNCHANGED <<store, used, crashes, lost>>
             /\ \E o : Quiet(o) /\ op' = [op EXCEPT ![p] = o]
  <2> DEFINE o == [Idle EXCEPT !.old = old, !.new = new, !.steps = steps]
  <2>1. o \in Op /\ o.old = old /\ o.new = new /\ o.steps = steps /\ o.ref = Idle.ref /\ o.fresh = Idle.fresh
    <3>1. steps \in Seq(Step)
      BY <1>1 DEF Block, Program
    <3>. QED  BY <3>1, IdleIs DEF Op
  <2>2. Quiet(o)
    <3>. HIDE DEF o
    <3>. QED  BY <1>1, <2>1, IdleIs, Programmed DEF Loose
  <2>. QED  BY <1>1, <2>2 DEF Begin
<1>2. p # Gui
  BY DEF Command
<1>3. /\ \A s \in Service : s \in Service \union {Nothing} /\ s # Nothing
      /\ Nothing \in Service \union {Nothing}
  BY DEF StoreAssumption
<1>4. PICK s \in Service :
         \/ Begin(p, Nothing, s, Start \o <<"free", "save">>)
         \/ \E t \in Service : Begin(p, s, t, Start \o <<"resolve", "free", "save">> \o (IF s = t THEN <<>> ELSE RemoveService))
         \/ Begin(p, s, Nothing, Start \o <<"resolve", "look", "move">>)
         \/ Begin(p, s, Nothing, Start \o <<"resolve", "forget", "clear">> \o Collect)
         \/ Begin(p, s, Nothing, Start \o <<"resolve">> \o RemoveService)
         \/ Begin(p, s, s, Start \o <<"resolve", "login", "protect", "insert">> \o Collect)
  BY DEF Command
<1>5. CASE Begin(p, Nothing, s, Start \o <<"free", "save">>)
  <2>1. Block(Start \o <<"free", "save">>) /\ Avoids(Start \o <<"free", "save">>, OldSteps)
    BY StartIs, Pieces, Joined
  <2>. QED  BY <1>1, <1>2, <1>3, <1>5, <2>1
<1>6. ASSUME NEW t \in Service, Begin(p, s, t, Start \o <<"resolve", "free", "save">> \o (IF s = t THEN <<>> ELSE RemoveService))
      PROVE  /\ ~Working(p) /\ UNCHANGED <<store, used, crashes, lost>>
             /\ \E o : Quiet(o) /\ op' = [op EXCEPT ![p] = o]
  <2> DEFINE rest == IF s = t THEN <<>> ELSE RemoveService
  <2>1. Block(Start \o <<"resolve", "free", "save">>) /\ Block(rest)
    BY StartIs, RemoveServiceIs, Pieces, Joined
  <2>. HIDE DEF rest
  <2>2. Block(Start \o <<"resolve", "free", "save">> \o rest)
    BY <2>1, Joined
  <2>. QED  BY <1>1, <1>3, <1>6, <2>2 DEF rest
<1>7. CASE Begin(p, s, Nothing, Start \o <<"resolve", "look", "move">>)
  <2>1. Block(Start \o <<"resolve", "look", "move">>) /\ Avoids(Start \o <<"resolve", "look", "move">>, NewSteps)
    BY StartIs, Pieces, Joined
  <2>. QED  BY <1>1, <1>2, <1>3, <1>7, <2>1
<1>8. CASE Begin(p, s, Nothing, Start \o <<"resolve", "forget", "clear">> \o Collect)
  <2>1. Block(Start \o <<"resolve", "forget", "clear">>) /\ Avoids(Start \o <<"resolve", "forget", "clear">>, NewSteps)
    BY StartIs, Pieces, Joined
  <2>2. /\ Block(Start \o <<"resolve", "forget", "clear">> \o Collect)
        /\ Avoids(Start \o <<"resolve", "forget", "clear">> \o Collect, NewSteps)
    BY <2>1, Pieces, Joined
  <2>. QED  BY <1>1, <1>2, <1>3, <1>8, <2>2
<1>9. CASE Begin(p, s, Nothing, Start \o <<"resolve">> \o RemoveService)
  <2>1. Block(<<"resolve">>) /\ Avoids(<<"resolve">>, NewSteps)
    BY Pieces
  <2>2. Block(Start \o <<"resolve">>) /\ Avoids(Start \o <<"resolve">>, NewSteps)
    BY <2>1, StartIs, Joined
  <2>3. /\ Block(Start \o <<"resolve">> \o RemoveService)
        /\ Avoids(Start \o <<"resolve">> \o RemoveService, NewSteps)
    BY <2>2, RemoveServiceIs, Joined
  <2>. QED  BY <1>1, <1>2, <1>3, <1>9, <2>3
<1>10. CASE Begin(p, s, s, Start \o <<"resolve", "login", "protect", "insert">> \o Collect)
  <2>1. Block(Start \o <<"resolve", "login", "protect", "insert">>)
    BY StartIs, Pieces, Joined
  <2>2. Block(Start \o <<"resolve", "login", "protect", "insert">> \o Collect)
    BY <2>1, Pieces, Joined
  <2>. QED  BY <1>1, <1>2, <1>3, <1>10, <2>2
<1>. QED  BY <1>2, <1>4, <1>5, <1>6, <1>7, <1>8, <1>9, <1>10

\* A process that is killed leaves to the lost what only it knew of.
LEMMA KilledStep ==
    ASSUME StoreAssumption, Now, NEW p \in Proc, Killed(p)
    PROVE  Now'
<1>1. /\ lost' = lost \union ((InFlight(p) \cap keyring) \ (Referenced \union journal))
      /\ op' = [op EXCEPT ![p] = Idle] /\ UNCHANGED <<session, journal, keyring, used>>
  BY DEF Killed, store
<1>2. Held(op[p]) \subseteq InFlight(p) /\ InFlight(p) \subseteq Ref
  BY DEF Held, InFlight
<1>3. Fits(Idle) /\ Held(Idle) = {} /\ ~Is(Idle, "drain") /\ Secure(Idle, session', journal', keyring', used')
  BY IdleQuiet, QuietFits, QuietSecure DEF Quiet
<1>4. GoesOn(op', op, p, Idle)
  BY <1>1 DEF GoesOn, Alone
<1>5. lost' \subseteq Ref /\ \A r \in keyring : r \in Held(op[p]) => r \in Refs(session) \union journal \union lost'
  BY <1>1, <1>2, Assumed
<1>6. lost \subseteq lost'
  BY <1>1
<1>7. Secrets(op', session', journal', keyring', used', lost')
  BY <1>1, <1>3, <1>4, <1>5, <1>6, Assumed, Settled DEF Now
<1>. QED  BY <1>7 DEF Now

-----------------------------------------------------------------------------
(* The cards of the interface *)

Reads == [ok : BOOLEAN, cards : Seq(Card)]
UIs == [on : BOOLEAN, privacy : BOOLEAN, cards : Seq(Card), all : Seq(Card), scheduled : BOOLEAN,
        running : BOOLEAN, again : BOOLEAN, read : {Nothing} \union Reads]

\* What the page shows, or what its reader is about to show, is what the services are.
UpToDate(u, content) ==
    /\ u.running /\ ~u.again /\ u.read.ok => u.read.cards = content
    /\ ~u.running /\ ~u.scheduled => u.cards = Shown(content, u.privacy)

CardsInv ==
    /\ page \in UIs /\ outside \in BOOLEAN
    /\ page.running => ~page.scheduled /\ page.read \in Reads
    /\ page.again => page.running
    /\ ~page.on => ~Working(Gui)
    /\ ~page.privacy => \A c \in Range(page.cards) : ~c.private
    /\ page.on /\ ~op[Gui].changed /\ ~outside => UpToDate(page, Content)

\* The invariant.
ServicesKept == Lists /\ Now /\ CardsInv

LEMMA OrdinaryIs ==
    ASSUME NEW cards \in Seq(Card)
    PROVE  /\ Ordinary(cards) \in Seq(Card) /\ \A c \in Range(Ordinary(cards)) : ~c.private
           /\ \A privacy \in BOOLEAN : Shown(cards, privacy) \in Seq(Card)
<1> DEFINE K == {c \in Card : ~c.private}
           o == Ordinary(cards)
<1>1. o \in Seq(Card) /\ \A n \in 1 .. Len(o) : \E i \in KeptIn(cards, K) : o[n] = cards[i]
  <2>1. o = Subsequence(cards, K)
    BY DEF Ordinary
  <2>. HIDE DEF o, K
  <2>2. /\ Subsequence(cards, K) \in Seq(Card)
        /\ \A n \in 1 .. Len(Subsequence(cards, K)) :
              \E i \in KeptIn(cards, K) : Rank(cards, K, i) = n - 1 /\ Subsequence(cards, K)[n] = cards[i]
    BY SubsequenceProperties
  <2>. QED  BY <2>1, <2>2
<1>2. \A c \in Range(o) : \E n \in 1 .. Len(o) : c = o[n]
  <2>. HIDE DEF o
  <2>. QED  BY <1>1, RangeIs
<1>3. \A c \in Range(o) : c \in K
  BY <1>1, <1>2 DEF KeptIn
<1>4. \A privacy \in BOOLEAN : Shown(cards, privacy) \in Seq(Card)
  BY <1>1 DEF Shown
<1>. QED  BY <1>1, <1>3, <1>4

LEMMA ContentIs ==
    ASSUME Lists, Now
    PROVE  Content \in Seq(Card)
<1>1. Len(list) \in Nat /\ DOMAIN list = 1 .. Len(list) /\ \A i \in DOMAIN list : list[i] \in Service
  BY DomainIs DEF Lists
<1>2. \A i \in 1 .. Len(list) : [id |-> list[i], private |-> list[i] \in private, session |-> session[list[i]] # NoRef] \in Card
  BY <1>1 DEF Card
<1>3. Content \in [1 .. Len(list) -> Card]
  BY <1>1, <1>2 DEF Content
<1>. QED  BY <1>1, <1>3, SeqDef

LEMMA EmptyPage == <<>> \in Seq(Card) /\ Range(<<>>) = {}
<1>1. <<>> \in Seq(Card) /\ DOMAIN <<>> = {}
  BY EmptySeq
<1>. QED  BY <1>1 DEF Range

LEMMA InitKeepsServices ==
    ASSUME StoreAssumption, CardsInit
    PROVE  ServicesKept
<1>1. /\ list = Saved /\ private \in SUBSET Range(Saved) /\ Saved \in Seq(Service)
      /\ session \in [Service -> {NoRef, Plain}]
      /\ journal = {} /\ keyring = {} /\ used = {} /\ lost = {}
      /\ op = [p \in Proc |-> Idle]
  BY DEF CardsInit, StoreInit, StoreAssumption
<1>2. Lists
  <2>1. Range(Saved) \subseteq Service /\ Once(Saved)
    BY <1>1, RangeIs DEF StoreAssumption, Once
  <2>. QED  BY <1>1, <2>1 DEF Lists
<1>3. Now
  <2>1. Refs(session) = {} /\ session \in [Service -> Ref \union {NoRef, Plain}]
        /\ \A s \in Service : session[s] \notin Ref
    BY <1>1 DEF Refs, StoreAssumption
  <2>2. \A p \in Proc : op[p] = Idle
    BY <1>1
  <2>3. Fits(Idle) /\ Held(Idle) = {} /\ Secure(Idle, session, journal, keyring, used) /\ Idle \in Op /\ ~Is(Idle, "drain")
    BY IdleQuiet, QuietFits, QuietSecure, IdleIs DEF Quiet
  <2>4. Apart(Idle, Idle)
    BY <2>3 DEF Apart
  <2>5. op \in [Proc -> Op]
    BY <1>1, <2>3
  <2>. QED  BY <1>1, <2>1, <2>2, <2>3, <2>4, <2>5 DEF Now, Secrets
<1>4. CardsInv
  <2>1. Content \in Seq(Card)
    BY <1>2, <1>3, ContentIs
  <2>2. page = [CardsOff EXCEPT !.on = TRUE, !.cards = Ordinary(Content), !.all = Content] /\ outside = FALSE
    BY DEF CardsInit
  <2>. HIDE DEF Content
  <2>3. /\ page \in UIs /\ page.cards = Ordinary(Content) /\ page.on /\ ~page.privacy /\ ~page.running /\ ~page.again /\ ~page.scheduled
    BY <2>1, <2>2, OrdinaryIs DEF UIs, CardsOff
  <2>. QED  BY <2>1, <2>2, <2>3, OrdinaryIs DEF CardsInv, UpToDate, Shown
<1>. QED  BY <1>2, <1>3, <1>4 DEF ServicesKept

\* Handlers begin with a program, while nothing runs.
LEMMA HandleStep ==
    ASSUME StoreAssumption, ServicesKept, NEW old \in Service \union {Nothing}, NEW new \in Service \union {Nothing},
           NEW steps, Block(steps), new = Nothing => Avoids(steps, NewSteps), old = Nothing => Avoids(steps, OldSteps),
           NEW fields \in Op, Loose(fields), ~fields.changed, Handle(old, new, steps, fields)
    PROVE  ServicesKept'
<1> DEFINE o == [fields EXCEPT !.old = old, !.new = new, !.steps = steps]
<1>1. /\ page.on /\ ~Working(Gui) /\ op' = [op EXCEPT ![Gui] = o] /\ outside' = (outside \/ op[Gui].changed)
      /\ UNCHANGED <<list, private, session, journal, keyring, used, lost, page>>
  BY DEF Handle, store
<1>2. o \in Op /\ Loose(o) /\ o.steps = steps /\ o.new = new /\ o.old = old /\ ~o.changed
  <2>1. steps \in Seq(Step)
    BY DEF Block, Program
  <2>. QED  BY <2>1 DEF Op, Loose
<1>. HIDE DEF o
<1>3. Quiet(o)
  BY <1>2, Programmed
<1>4. Lists' /\ Now'
  BY <1>1, <1>3, BegunStep DEF ServicesKept, Lists, StoreAssumption
<1>5. Content' = Content /\ op'[Gui].changed = FALSE /\ op[Gui].changed \in BOOLEAN
  BY <1>1, <1>2, Assumed DEF Content, Op, ServicesKept, StoreAssumption
<1>6. CardsInv'
  <2>. HIDE DEF Content
  <2>. QED  BY <1>1, <1>5 DEF ServicesKept, CardsInv
<1>. QED  BY <1>4, <1>6 DEF ServicesKept

LEMMA CardIds ==
    ASSUME StoreAssumption, ServicesKept
    PROVE  /\ Ids(page.cards) \subseteq Service \ {Nothing} /\ Ids(page.all) \subseteq Service \ {Nothing}
           /\ page.cards \in Seq(Card) /\ page.all \in Seq(Card) /\ page.privacy \in BOOLEAN
<1>1. page.cards \in Seq(Card) /\ page.all \in Seq(Card) /\ page.privacy \in BOOLEAN
  BY DEF ServicesKept, CardsInv, UIs
<1>2. Range(page.cards) \subseteq Card /\ Range(page.all) \subseteq Card
  BY <1>1, RangeIs
<1>3. Nothing \notin Service
  BY DEF StoreAssumption
<1>. QED  BY <1>1, <1>2, <1>3 DEF Ids, Card

LEMMA SaveCardStep ==
    ASSUME StoreAssumption, ServicesKept, saveServiceCard
    PROVE  ServicesKept'
<1>1. PICK new \in Service, old \in Ids(page.cards) \union {Nothing} :
      LET hideOld == IF old \in {Nothing, new} THEN <<>> ELSE <<"hideOld">>
          login == <<"login", "protect", "insert">> \o Collect
          hide == IF old = Nothing THEN page.privacy ELSE \E c \in Range(page.cards) : c.id = old /\ c.private
      IN \E steps \in {hideOld \o <<"save">>, <<"save">> \o hideOld} \union IF new \in MediaServer THEN {hideOld \o login} ELSE {} :
           Handle(old, new, steps \o <<"refresh">>, [Idle EXCEPT !.hide = hide])
  BY DEF saveServiceCard
<1> DEFINE hideOld == IF old \in {Nothing, new} THEN <<>> ELSE <<"hideOld">>
           login == <<"login", "protect", "insert">> \o Collect
           hide == IF old = Nothing THEN page.privacy ELSE \E c \in Range(page.cards) : c.id = old /\ c.private
           fields == [Idle EXCEPT !.hide = hide]
<1>2. PICK steps \in {hideOld \o <<"save">>, <<"save">> \o hideOld, hideOld \o login} :
           Handle(old, new, steps \o <<"refresh">>, fields)
  BY <1>1
<1>3. old \in Service \union {Nothing} /\ new \in Service \union {Nothing} /\ new # Nothing
  BY CardIds DEF StoreAssumption
<1>4. fields \in Op /\ Loose(fields) /\ ~fields.changed
  <2>1. hide \in BOOLEAN
    BY CardIds
  <2>. HIDE DEF hide
  <2>. QED  BY <2>1, IdleIs DEF Op, Loose
<1>. HIDE DEF fields
<1>5. Block(hideOld) /\ Avoids(hideOld, OldSteps)
  BY Pieces
<1>6. Block(login) /\ Avoids(login, OldSteps)
  BY Pieces, Joined
<1>7. Block(<<"save">>) /\ Avoids(<<"save">>, OldSteps) /\ Block(<<"refresh">>) /\ Avoids(<<"refresh">>, OldSteps)
  BY Pieces
<1>. HIDE DEF hideOld, login
<1>8. /\ Block(hideOld \o <<"save">>) /\ Avoids(hideOld \o <<"save">>, OldSteps)
      /\ Block(<<"save">> \o hideOld) /\ Avoids(<<"save">> \o hideOld, OldSteps)
      /\ Block(hideOld \o login) /\ Avoids(hideOld \o login, OldSteps)
  BY <1>5, <1>6, <1>7, Joined
<1>9. Block(steps) /\ Avoids(steps, OldSteps)
  BY <1>8
<1>10. Block(steps \o <<"refresh">>) /\ Avoids(steps \o <<"refresh">>, OldSteps)
  BY <1>7, <1>9, Joined
<1>. QED  BY <1>2, <1>3, <1>4, <1>10, HandleStep

LEMMA DeleteCardStep ==
    ASSUME StoreAssumption, ServicesKept, deleteServiceCard
    PROVE  ServicesKept'
<1>1. PICK s \in Ids(page.cards) :
       \/ Handle(s, Nothing, <<"hide", "refresh">>, Idle)
       \/ Handle(s, Nothing, (IF s \in OtherService THEN <<"forget">> ELSE <<>>) \o <<"delete">> \o Collect \o <<"refresh">>, Idle)
  BY DEF deleteServiceCard
<1> DEFINE first == IF s \in OtherService THEN <<"forget">> ELSE <<>>
<1>2. s \in Service \union {Nothing} /\ s # Nothing /\ Nothing \in Service \union {Nothing}
  BY CardIds
<1>3. Block(first) /\ Avoids(first, NewSteps)
  BY Pieces
<1>. HIDE DEF first
<1>4. Block(<<"delete">>) /\ Avoids(<<"delete">>, NewSteps) /\ Block(<<"refresh">>) /\ Avoids(<<"refresh">>, NewSteps)
  BY Pieces
<1>5. Block(first \o <<"delete">>) /\ Avoids(first \o <<"delete">>, NewSteps)
  BY <1>3, <1>4, Joined
<1>6. Block(first \o <<"delete">> \o Collect) /\ Avoids(first \o <<"delete">> \o Collect, NewSteps)
  BY <1>5, Pieces, Joined
<1>7. /\ Block(first \o <<"delete">> \o Collect \o <<"refresh">>)
      /\ Avoids(first \o <<"delete">> \o Collect \o <<"refresh">>, NewSteps)
  BY <1>4, <1>6, Joined
<1>8. CASE Handle(s, Nothing, <<"hide", "refresh">>, Idle)
  BY <1>2, <1>8, Pieces, IdleIs, HandleStep
<1>9. CASE Handle(s, Nothing, first \o <<"delete">> \o Collect \o <<"refresh">>, Idle)
  BY <1>2, <1>7, <1>9, IdleIs, HandleStep
<1>. QED  BY <1>1, <1>8, <1>9 DEF first

LEMMA MoveCardStep ==
    ASSUME StoreAssumption, ServicesKept, moveServiceCard \/ setPrivacyCardPrivate
    PROVE  ServicesKept'
<1>1. CASE moveServiceCard
  <2>1. PICK s \in Ids(page.cards) : Handle(s, Nothing, <<"look", "move", "refresh">>, [Idle EXCEPT !.all = page.privacy])
    BY <1>1 DEF moveServiceCard
  <2> DEFINE fields == [Idle EXCEPT !.all = page.privacy]
  <2>2. s \in Service \union {Nothing} /\ s # Nothing /\ Nothing \in Service \union {Nothing}
    BY CardIds
  <2>3. fields \in Op /\ Loose(fields) /\ ~fields.changed
    BY CardIds, IdleIs DEF Op, Loose
  <2>. HIDE DEF fields
  <2>4. Block(<<"look", "move", "refresh">>) /\ Avoids(<<"look", "move", "refresh">>, NewSteps)
    BY Pieces
  <2>5. Handle(s, Nothing, <<"look", "move", "refresh">>, fields)
    BY <2>1 DEF fields
  <2>. QED  BY <2>2, <2>3, <2>4, <2>5, HandleStep
<1>2. CASE setPrivacyCardPrivate
  <2>1. PICK s \in Ids(page.all), hide \in BOOLEAN : Handle(s, Nothing, <<"mark", "refresh">>, [Idle EXCEPT !.hide = hide])
    BY <1>2 DEF setPrivacyCardPrivate
  <2> DEFINE fields == [Idle EXCEPT !.hide = hide]
  <2>2. s \in Service \union {Nothing} /\ s # Nothing /\ Nothing \in Service \union {Nothing}
    BY CardIds
  <2>3. fields \in Op /\ Loose(fields) /\ ~fields.changed
    BY IdleIs DEF Op, Loose
  <2>. HIDE DEF fields
  <2>4. Block(<<"mark", "refresh">>) /\ Avoids(<<"mark", "refresh">>, NewSteps)
    BY Pieces
  <2>5. Handle(s, Nothing, <<"mark", "refresh">>, fields)
    BY <2>1 DEF fields
  <2>. QED  BY <2>2, <2>3, <2>4, <2>5, HandleStep
<1>. QED  BY <1>1, <1>2

LEMMA StartStep ==
    ASSUME StoreAssumption, ServicesKept, initialize
    PROVE  ServicesKept'
<1> DEFINE o == [Idle EXCEPT !.steps = Start \o <<"refresh">>, !.changed = TRUE]
<1>1. /\ op' = [op EXCEPT ![Gui] = o] /\ page' = [CardsOff EXCEPT !.on = TRUE] /\ outside' = outside /\ ~Working(Gui)
      /\ UNCHANGED <<list, private, session, journal, keyring, used, lost>>
  BY DEF initialize, store, ServicesKept, CardsInv
<1>2. Block(Start \o <<"refresh">>) /\ Avoids(Start \o <<"refresh">>, NewSteps) /\ Avoids(Start \o <<"refresh">>, OldSteps)
  <2>1. Block(<<"refresh">>) /\ Avoids(<<"refresh">>, NewSteps) /\ Avoids(<<"refresh">>, OldSteps)
    BY Pieces
  <2>. QED  BY <2>1, StartIs, Joined
<1>3. o \in Op /\ Loose(o) /\ o.steps = Start \o <<"refresh">> /\ o.changed
  <2>1. Start \o <<"refresh">> \in Seq(Step)
    BY <1>2 DEF Block, Program
  <2>. QED  BY <2>1, IdleIs DEF Op, Loose
<1>. HIDE DEF o
<1>4. Quiet(o)
  BY <1>2, <1>3, Programmed
<1>5. Lists' /\ Now'
  BY <1>1, <1>4, BegunStep DEF ServicesKept, Lists, StoreAssumption
<1>6. op'[Gui].changed
  BY <1>1, <1>3, Assumed DEF ServicesKept, StoreAssumption
<1>7. page' \in UIs /\ page'.cards = <<>> /\ page'.on /\ ~page'.running /\ ~page'.again
  BY <1>1, EmptyPage DEF UIs, CardsOff
<1>8. CardsInv'
  BY <1>1, <1>6, <1>7, EmptyPage DEF ServicesKept, CardsInv
<1>. QED  BY <1>5, <1>8 DEF ServicesKept
\* A refresh leaves the page for the reader to fill.
LEMMA RefreshIs ==
    ASSUME StoreAssumption, ServicesKept, NEW u, u = page \/ u = [page EXCEPT !.privacy = ~page.privacy], page' = refreshServiceCards(u)
    PROVE  /\ page' \in UIs /\ page'.on = page.on
           /\ page'.running => ~page'.scheduled /\ page'.read \in Reads
           /\ page'.again => page'.running
           /\ ~page'.privacy => \A c \in Range(page'.cards) : ~c.private
           /\ \A content : UpToDate(page', content)
<1> DEFINE cards == Shown(u.cards, u.privacy)
<1>1. u \in UIs /\ u.on = page.on /\ u.running = page.running /\ u.read = page.read /\ (u.running => u.read \in Reads)
  BY DEF UIs, ServicesKept, CardsInv
<1>2. cards \in Seq(Card) /\ (~u.privacy => \A c \in Range(cards) : ~c.private)
  BY <1>1, OrdinaryIs DEF UIs, Shown
<1>3. page' = [u EXCEPT !.cards = cards, !.scheduled = ~u.running, !.again = u.running]
  BY DEF refreshServiceCards
<1>. HIDE DEF cards
<1>4. /\ page' \in UIs /\ page'.on = u.on /\ page'.privacy = u.privacy /\ page'.cards = cards /\ page'.running = u.running
      /\ (page'.scheduled <=> ~u.running) /\ (page'.again <=> u.running) /\ page'.read = u.read
  BY <1>1, <1>2, <1>3 DEF UIs
<1>. QED  BY <1>1, <1>2, <1>4 DEF UpToDate

LEMMA ToggleStep ==
    ASSUME StoreAssumption, ServicesKept, togglePrivacyMode
    PROVE  ServicesKept'
<1>1. /\ page.on /\ page' = refreshServiceCards([page EXCEPT !.privacy = ~page.privacy])
      /\ UNCHANGED <<list, private, session, journal, keyring, used, lost, op, outside>>
  BY DEF togglePrivacyMode, store
<1>2. /\ page' \in UIs /\ page'.on = page.on
      /\ page'.running => ~page'.scheduled /\ page'.read \in Reads
      /\ page'.again => page'.running
      /\ ~page'.privacy => \A c \in Range(page'.cards) : ~c.private
      /\ \A content : UpToDate(page', content)
  BY <1>1, RefreshIs
<1>3. UpToDate(page', Content')
  BY <1>2
<1>4. Lists' /\ Now'
  BY <1>1 DEF ServicesKept, Lists, Now
<1>5. CardsInv'
  <2>. HIDE DEF Content, UpToDate
  <2>. QED  BY <1>1, <1>2, <1>3 DEF ServicesKept, CardsInv
<1>. QED  BY <1>4, <1>5 DEF ServicesKept

LEMMA RefreshedStep ==
    ASSUME StoreAssumption, ServicesKept, AskRefresh(Gui)
    PROVE  ServicesKept'
<1>1. /\ At(Gui, "refresh") /\ page' = refreshServiceCards(page) /\ op' = [op EXCEPT ![Gui] = Idle]
      /\ UNCHANGED <<list, private, session, journal, keyring, used, lost, outside>> /\ Gui \in Proc
  BY DEF AskRefresh, store, StoreAssumption
<1>2. Now'
  <2>1. Now /\ Held(op[Gui]) = {}
    BY <1>1, AtIs, LooseAt DEF ServicesKept
  <2>. QED  BY <1>1, <2>1, IdleQuiet, QuietStep
<1>3. Lists'
  BY <1>1 DEF ServicesKept, Lists
<1>4. /\ page' \in UIs /\ page'.on = page.on
      /\ page'.running => ~page'.scheduled /\ page'.read \in Reads
      /\ page'.again => page'.running
      /\ ~page'.privacy => \A c \in Range(page'.cards) : ~c.private
      /\ \A content : UpToDate(page', content)
  BY <1>1, RefreshIs
<1>5. UpToDate(page', Content')
  BY <1>4
<1>6. op'[Gui] = Idle
  BY <1>1, Assumed DEF ServicesKept
<1>7. ~Working(Gui)'
  BY <1>6, IdleIs DEF Working
<1>8. CardsInv'
  <2>. HIDE DEF Content, UpToDate
  <2>. QED  BY <1>1, <1>4, <1>5, <1>7 DEF ServicesKept, CardsInv
<1>. QED  BY <1>2, <1>3, <1>8 DEF ServicesKept

LEMMA LoaderStartStep ==
    ASSUME StoreAssumption, ServicesKept, LoaderStart
    PROVE  ServicesKept'
<1>1. /\ page.scheduled /\ UNCHANGED <<list, private, session, journal, keyring, used, lost>> /\ Gui \in Proc
      /\ page \in UIs /\ op \in [Proc -> Op] /\ Now
  BY Assumed DEF LoaderStart, store, StoreAssumption, ServicesKept, CardsInv
<1>2. Content' = Content /\ Content \in Seq(Card) /\ Lists'
  BY <1>1, ContentIs DEF Content, ServicesKept, Lists
<1>3. CASE /\ page' = [page EXCEPT !.scheduled = FALSE, !.running = TRUE, !.read = [ok |-> TRUE, cards |-> Content]]
           /\ outside' = FALSE /\ op' = [op EXCEPT ![Gui].changed = FALSE]
  <2> DEFINE o == [op[Gui] EXCEPT !.changed = FALSE]
  <2>1. /\ o \in Op /\ o.steps = op[Gui].steps /\ o.ref = op[Gui].ref /\ o.fresh = op[Gui].fresh /\ o.todo = op[Gui].todo
        /\ o.new = op[Gui].new /\ o.old = op[Gui].old /\ o.raced = op[Gui].raced /\ o.cards = op[Gui].cards /\ ~o.changed
    BY <1>1 DEF Op
  <2>2. op' = [op EXCEPT ![Gui] = o]
    BY <1>1, <1>3
  <2>. HIDE DEF o
  <2>3. /\ \A step : Is(o, step) <=> Is(op[Gui], step)
        /\ Held(o) = Held(op[Gui]) /\ Fits(o) /\ Secure(o, session', journal', keyring', used')
    BY <1>1, <2>1, Assumed DEF Is, Held, Fits, Typed, Secure
  <2>4. GoesOn(op', op, Gui, o)
    BY <2>2 DEF GoesOn, Alone
  <2>5. Secrets(op', session', journal', keyring', used', lost')
    BY <1>1, <2>1, <2>3, <2>4, Assumed, Settled DEF Now
  <2>6. Now'
    BY <2>5 DEF Now
  <2>7. op'[Gui] = o
    BY <1>1, <2>2
  <2>8. Working(Gui)' <=> Working(Gui)
    BY <2>1, <2>7 DEF Working
  <2>9. [ok |-> TRUE, cards |-> Content] \in Reads
    BY <1>2 DEF Reads
  <2>. HIDE DEF Content
  <2>10. /\ page' \in UIs /\ page'.on = page.on /\ page'.cards = page.cards /\ page'.privacy = page.privacy
         /\ page'.running /\ ~page'.scheduled /\ page'.read = [ok |-> TRUE, cards |-> Content]
    BY <1>1, <1>3, <2>9 DEF UIs
  <2>11. UpToDate(page', Content')
    BY <1>2, <2>10 DEF UpToDate
  <2>12. CardsInv'
    <3>. HIDE DEF UpToDate
    <3>. QED  BY <1>3, <2>8, <2>9, <2>10, <2>11 DEF ServicesKept, CardsInv
  <2>. QED  BY <1>2, <2>6, <2>12 DEF ServicesKept
<1>4. CASE /\ page' = [page EXCEPT !.scheduled = FALSE, !.running = TRUE, !.read = [ok |-> FALSE, cards |-> <<>>]]
           /\ UNCHANGED <<outside, op>>
  <2>1. [ok |-> FALSE, cards |-> <<>>] \in Reads
    BY EmptyPage DEF Reads
  <2>. HIDE DEF Content
  <2>2. /\ page' \in UIs /\ page'.on = page.on /\ page'.cards = page.cards /\ page'.privacy = page.privacy
        /\ page'.running /\ ~page'.scheduled /\ page'.read = [ok |-> FALSE, cards |-> <<>>]
    BY <1>1, <1>4, <2>1 DEF UIs
  <2>3. UpToDate(page', Content') /\ Now' /\ (Working(Gui)' <=> Working(Gui))
    BY <1>1, <1>4, <2>2 DEF UpToDate, Now, Working
  <2>4. CardsInv'
    <3>. HIDE DEF UpToDate
    <3>. QED  BY <1>4, <2>1, <2>2, <2>3 DEF ServicesKept, CardsInv
  <2>. QED  BY <1>2, <2>3, <2>4 DEF ServicesKept
<1>. QED  BY <1>3, <1>4 DEF LoaderStart

LEMMA LoaderEndsStep ==
    ASSUME StoreAssumption, ServicesKept, LoaderEnds
    PROVE  ServicesKept'
<1> DEFINE cards == page.read.cards
           shown == Shown(cards, page.privacy)
           done == [page EXCEPT !.running = FALSE, !.read = Nothing, !.again = FALSE]
<1>1. /\ page.running /\ ~page.scheduled /\ page \in UIs /\ cards \in Seq(Card)
      /\ UNCHANGED <<list, private, session, journal, keyring, used, lost, op>>
  BY DEF LoaderEnds, svars, store, ServicesKept, CardsInv, Reads
<1>2. Content' = Content /\ Lists' /\ Now' /\ (Working(Gui)' <=> Working(Gui))
  BY <1>1 DEF Content, ServicesKept, Lists, Now, Working
<1>3. shown \in Seq(Card) /\ (~page.privacy => \A c \in Range(shown) : ~c.private)
  BY <1>1, OrdinaryIs DEF UIs, Shown
<1>. HIDE DEF Content, shown
<1>4. CASE page.again /\ page' = [done EXCEPT !.scheduled = TRUE] /\ UNCHANGED outside
  <2>1. /\ page' \in UIs /\ page'.on = page.on /\ page'.cards = page.cards /\ page'.privacy = page.privacy
        /\ ~page'.running /\ page'.scheduled /\ ~page'.again
    BY <1>1, <1>4 DEF UIs
  <2>2. UpToDate(page', Content')
    BY <2>1 DEF UpToDate
  <2>. HIDE DEF UpToDate
  <2>. QED  BY <1>2, <1>4, <2>1, <2>2 DEF ServicesKept, CardsInv
<1>5. CASE page' = done /\ outside' = TRUE
  <2>1. /\ page' \in UIs /\ page'.on = page.on /\ page'.cards = page.cards /\ page'.privacy = page.privacy
        /\ ~page'.running /\ ~page'.again
    BY <1>1, <1>5 DEF UIs
  <2>. QED  BY <1>2, <1>5, <2>1 DEF ServicesKept, CardsInv
<1>6. CASE ~page.again /\ page.read.ok /\ page' = [done EXCEPT !.cards = shown, !.all = cards] /\ UNCHANGED outside
  <2>1. /\ page' \in UIs /\ page'.on = page.on /\ page'.cards = shown /\ page'.privacy = page.privacy
        /\ ~page'.running /\ ~page'.again
    BY <1>1, <1>3, <1>6 DEF UIs
  <2>2. page.on /\ ~op[Gui].changed /\ ~outside => UpToDate(page', Content')
    <3>1. page.on /\ ~op[Gui].changed /\ ~outside => cards = Content
      BY <1>1, <1>6 DEF ServicesKept, CardsInv, UpToDate
    <3>. QED  BY <1>2, <2>1, <3>1 DEF UpToDate, shown
  <2>. HIDE DEF UpToDate
  <2>. QED  BY <1>1, <1>2, <1>3, <1>6, <2>1, <2>2 DEF ServicesKept, CardsInv
<1>. QED  BY <1>4, <1>5, <1>6 DEF LoaderEnds, shown

LEMMA GuiKilledStep ==
    ASSUME StoreAssumption, ServicesKept, GuiKilled
    PROVE  ServicesKept'
<1>1. /\ page' = CardsOff /\ outside' = FALSE /\ op' = [op EXCEPT ![Gui] = Idle] /\ Gui \in Proc /\ UNCHANGED <<list, private>>
      /\ op \in [Proc -> Op]
  BY Assumed DEF GuiKilled, Killed, store, StoreAssumption, ServicesKept
<1>2. Now' /\ Lists'
  BY <1>1, KilledStep DEF GuiKilled, ServicesKept, Lists
<1>3. page' \in UIs /\ page'.cards = <<>> /\ ~page'.on /\ ~page'.running /\ ~page'.again
  BY <1>1, EmptyPage DEF UIs, CardsOff
<1>4. ~Working(Gui)'
  BY <1>1, IdleIs DEF Working
<1>. QED  BY <1>1, <1>2, <1>3, <1>4, EmptyPage DEF ServicesKept, CardsInv

LEMMA GuiStep ==
    ASSUME StoreAssumption, ServicesKept, StoreStep(Gui), UNCHANGED <<page, outside>>
    PROVE  ServicesKept'
<1>1. Gui \in Proc /\ op \in [Proc -> Op] /\ Now /\ Lists
  BY Assumed DEF ServicesKept, StoreAssumption
<1>2. Now' /\ Lists' /\ Elsewhere(Gui)
  BY <1>1, SecretsStep, ListsStep, ElsewhereStep
<1>3. Working(Gui)
  BY DEF StoreStep, Working, At, initializeSessionTokenCleanup, protectLegacySessionTokens, ReadOldTokens, ProtectOldToken,
         ReplaceOldTokens, collectUnusedSessionCredentials, Unlist, Select, RemoveSecret, Strike, Drained, Discard,
         saveServer, saveSession, ProtectToken, InsertSession, clearServerSession, deleteServer, DeleteRows, HideRow,
         setServerPrivateMode, moveServerTo, Look, Reorder, deletePassword, Resolve, NotTaken, Answered
<1>4. op[Gui].changed => op'[Gui].changed
  BY <1>2 DEF Elsewhere
<1>5. op'[Gui].changed \/ Content' = Content
  BY <1>2 DEF Elsewhere
<1>6. CardsInv'
  <2>. HIDE DEF Content, UpToDate
  <2>. QED  BY <1>3, <1>4, <1>5 DEF ServicesKept, CardsInv
<1>. QED  BY <1>2, <1>6 DEF ServicesKept

LEMMA OtherStep ==
    ASSUME StoreAssumption, ServicesKept, NEW p \in Proc, CommandStep(p)
    PROVE  ServicesKept'
<1>1. Gui \in Proc /\ op \in [Proc -> Op] /\ Now /\ Lists /\ p # Gui
  BY Assumed DEF ServicesKept, StoreAssumption, CommandStep
<1>2. outside' = (outside \/ Content' # Content) /\ page' = page
  BY DEF CommandStep
<1>3. Now' /\ Lists' /\ op'[Gui].steps = op[Gui].steps /\ op'[Gui].changed = op[Gui].changed
  <2>1. CASE StoreStep(p)
    BY <1>1, <2>1, SecretsStep, ListsStep, ElsewhereStep DEF Elsewhere
  <2>2. CASE Command(p)
    <3>1. PICK o : Quiet(o) /\ op' = [op EXCEPT ![p] = o]
      BY <2>2, CommandStarts
    <3>2. ~Working(p) /\ UNCHANGED <<list, private, session, journal, keyring, used, lost>>
      BY <2>2, CommandStarts DEF store
    <3>. QED  BY <1>1, <3>1, <3>2, BegunStep DEF Lists
  <2>3. CASE Killed(p)
    BY <1>1, <2>3, KilledStep DEF Killed, store, Lists
  <2>. QED  BY <2>1, <2>2, <2>3 DEF CommandStep
<1>4. Working(Gui)' <=> Working(Gui)
  BY <1>3 DEF Working
<1>5. CardsInv'
  <2>. HIDE DEF Content, UpToDate
  <2>. QED  BY <1>2, <1>3, <1>4 DEF ServicesKept, CardsInv
<1>. QED  BY <1>3, <1>5 DEF ServicesKept

LEMMA NextKeepsServices ==
    ASSUME StoreAssumption, ServicesKept, [CardsNext]_cardsVars
    PROVE  ServicesKept'
<1>1. CASE Handlers
  BY <1>1, SaveCardStep, DeleteCardStep, MoveCardStep, StartStep, ToggleStep DEF Handlers
<1>2. CASE Loader \/ AskRefresh(Gui) \/ GuiKilled
  BY <1>2, LoaderStartStep, LoaderEndsStep, RefreshedStep, GuiKilledStep DEF Loader
<1>3. CASE StoreStep(Gui) /\ UNCHANGED <<page, outside>>
  BY <1>3, GuiStep
<1>4. CASE \E p \in Proc \ {Gui} : CommandStep(p)
  BY <1>4, OtherStep
<1>5. CASE UNCHANGED cardsVars
  <2>1. UNCHANGED <<list, private, session, journal, keyring, op, used, lost, page, outside>>
    BY <1>5 DEF cardsVars, svars, store
  <2>2. Content' = Content
    BY <2>1 DEF Content
  <2>. HIDE DEF Content
  <2>. QED  BY <2>1, <2>2 DEF ServicesKept, Lists, Now, CardsInv, Working
<1>. QED  BY <1>1, <1>2, <1>3, <1>4, <1>5 DEF CardsNext

-----------------------------------------------------------------------------
(* The theorems *)

LEMMA Invariance ==
    ASSUME StoreAssumption
    PROVE  CardsSpec => []ServicesKept
BY InitKeepsServices, NextKeepsServices, PTL DEF CardsSpec

\* What the page of services guarantees: no private service in normal mode, and the truth when all rests.
THEOREM CardsAreTrue ==
    ASSUME StoreAssumption
    PROVE  CardsSpec => []ServicesInv
<1>1. ASSUME ServicesKept PROVE ServicesInv
  <2>1. CardsTypeOK
    <3>1. StoreTypeOK
      <4>1. \A p \in Proc : op[p].new \in Service \union {Nothing} /\ op[p].old \in Service \union {Nothing}
        BY <1>1, Assumed DEF ServicesKept, Op
      <4>2. /\ session \in [Service -> Ref \union {NoRef, Plain}] /\ journal \subseteq Ref /\ keyring \subseteq Ref
            /\ used \subseteq Ref /\ lost \subseteq Ref
        BY <1>1 DEF ServicesKept, Now, Secrets
      <4>. QED  BY <1>1, <4>1, <4>2 DEF ServicesKept, Lists, StoreTypeOK
    <3>. QED  BY <1>1, <3>1 DEF ServicesKept, CardsInv, UIs, CardsTypeOK
  <2>2. OrdinaryPageHidesPrivate
    BY <1>1 DEF ServicesKept, CardsInv, OrdinaryPageHidesPrivate
  <2>3. CardsCurrent
    BY <1>1 DEF ServicesKept, CardsInv, UpToDate, CardsCurrent
  <2>. QED  BY <2>1, <2>2, <2>3 DEF ServicesInv
<1>. QED  BY <1>1, Invariance, PTL

\* A step that removes a secret in use is one of a collector that was raced.
LEMMA SessionsStep ==
    ASSUME StoreAssumption, ServicesKept, [CardsNext]_cardsVars, NEW s \in Service, session[s] \in keyring, session'[s] = session[s]
    PROVE  session[s] \in keyring' \/ \E p \in Proc : op[p].raced
<1>1. session[s] \in Refs(session) /\ Now
  BY Assumed DEF ServicesKept, Now, Secrets, Refs
<1>2. ASSUME NEW p \in Proc, StoreStep(p)
      PROVE  session[s] \in keyring' \/ op[p].raced
  <2>1. CASE RemoveSecret(p)
    <3>1. At(p, "drain")
      BY <2>1 DEF RemoveSecret
    <3>2. ~op[p].raced => op[p].todo \cap Refs(session) = {}
      BY <1>1, <3>1, AtIs DEF Secure
    <3>3. \E r \in op[p].todo : keyring' \in {keyring, keyring \ {r}}
      BY <2>1 DEF RemoveSecret, execute
    <3>. QED  BY <1>1, <3>2, <3>3
  <2>2. CASE Discard(p)
    <3>1. At(p, "discard")
      BY <2>2 DEF Discard
    <3>2. Is(op[p], "discard") /\ Secure(op[p], session, journal, keyring, used)
      BY <1>1, <3>1, AtIs
    <3>3. InFlight(p) = Held(op[p])
      BY <3>2 DEF InFlight, Held, Is
    <3>4. InFlight(p) \cap Refs(session) = {}
      BY <3>2, <3>3 DEF Secure
    <3>5. keyring \ InFlight(p) \subseteq keyring'
      BY <2>2 DEF Discard
    <3>. QED  BY <1>1, <3>4, <3>5
  <2>3. CASE ~RemoveSecret(p) /\ ~Discard(p)
    <3>1. keyring \subseteq keyring'
      BY <1>2, <2>3
      DEF StoreStep, initializeSessionTokenCleanup, protectLegacySessionTokens, ReadOldTokens, ProtectOldToken,
          ReplaceOldTokens, collectUnusedSessionCredentials, Unlist, Select, Strike, Drained,
          saveServer, saveSession, ProtectToken, InsertSession, clearServerSession, deleteServer, DeleteRows, HideRow,
          setServerPrivateMode, moveServerTo, Look, Reorder, deletePassword, Resolve, NotTaken, Answered, store, execute
    <3>. QED  BY <3>1
  <2>. QED  BY <2>1, <2>2, <2>3
<1>3. CASE StoreStep(Gui)
  BY <1>2, <1>3 DEF StoreAssumption
<1>4. ASSUME NEW p \in Proc, CommandStep(p)
      PROVE  session[s] \in keyring' \/ \E q \in Proc : op[q].raced
  <2>1. Command(p) \/ Killed(p) => keyring' = keyring
    BY CommandStarts DEF Killed, store
  <2>. QED  BY <1>2, <1>4, <2>1 DEF CommandStep
<1>5. CASE Handlers \/ Loader \/ AskRefresh(Gui) \/ GuiKilled \/ UNCHANGED cardsVars
  <2>1. keyring' = keyring
    BY <1>5 DEF Handlers, initialize, saveServiceCard, deleteServiceCard, moveServiceCard, setPrivacyCardPrivate, Handle,
                togglePrivacyMode, Loader, LoaderStart, LoaderEnds, AskRefresh, GuiKilled, Killed, cardsVars, svars, store
  <2>. QED  BY <2>1
<1>. QED  BY <1>3, <1>4, <1>5 DEF CardsNext

\* No secret of the keyring is forgotten, and none is removed under a session that uses it, but by a
\* collector between whose two queries another process started.
THEOREM SecretsAreKept ==
    ASSUME StoreAssumption
    PROVE  CardsSpec => []SecretsAccounted /\ SecretsKept
<1>1. ASSUME ServicesKept PROVE SecretsAccounted
  <2>1. \A p \in Proc : Held(op[p]) \subseteq InFlight(p)
    BY DEF Held, InFlight
  <2>. QED  BY <1>1, <2>1, Assumed DEF ServicesKept, Now, Secrets, SecretsAccounted, Refs, Referenced
<1>2. ASSUME ServicesKept, [CardsNext]_cardsVars
      PROVE  [LosesOnlyToAStart]_svars
  BY <1>2, SessionsStep DEF LosesOnlyToAStart
<1>3. CardsSpec => []SecretsAccounted
  BY <1>1, Invariance, PTL
<1>4. CardsSpec => [][LosesOnlyToAStart]_svars
  BY <1>2, Invariance, PTL DEF CardsSpec
<1>. QED  BY <1>3, <1>4, PTL DEF SecretsKept, KeepsSecrets

\* A move by someone who does not see the private services leaves each in its place.
LEMMA MoveStep ==
    ASSUME StoreAssumption, ServicesKept, [CardsNext]_cardsVars, NEW p \in Proc, At(p, "move"), ~At(p, "move")', ~op[p].all, list' # list
    PROVE  Len(list') = Len(list) /\ \A i \in DOMAIN list : list[i] \in private => list'[i] = list[i]
<1>1. Now /\ Lists /\ op \in [Proc -> Op] /\ Gui \in Proc
  BY Assumed DEF ServicesKept, StoreAssumption
<1>2. ASSUME op'[p].steps = op[p].steps PROVE FALSE
  BY <1>2 DEF At
<1>3. CASE StoreStep(p)
  <2>1. Is(op[p], "move") /\ Fits(op[p])
    BY <1>1, AtIs
  <2>2. \A step : At(p, step) => step = "move"
    BY DEF At
  <2>3. Reorder(p)
    BY <1>3, <2>2
    DEF StoreStep, initializeSessionTokenCleanup, protectLegacySessionTokens, ReadOldTokens, ProtectOldToken,
        ReplaceOldTokens, collectUnusedSessionCredentials, Unlist, Select, RemoveSecret, Strike, Drained, Discard,
        saveServer, saveSession, ProtectToken, InsertSession, clearServerSession, deleteServer, DeleteRows, HideRow,
        setServerPrivateMode, moveServerTo, Look, deletePassword, Resolve, NotTaken, Answered
  <2> DEFINE cards == op[p].cards
             L2 == [i \in DOMAIN list |-> IF FALSE \/ list[i] \notin private THEN cards[Slot(i, FALSE)] ELSE list[i]]
  <2>4. op[p].all = FALSE /\ cards \in Seq(Service) /\ Once(cards)
    BY <1>1, <2>1 DEF Fits, Op
  <2>5. Range(Listed(FALSE)) = Range(cards) /\ list' = L2
    BY <2>3, <2>4 DEF Reorder
  <2>. HIDE DEF cards
  <2>6. Len(L2) = Len(list)
    <3>1. FALSE \in BOOLEAN
      OBVIOUS
    <3>. QED  BY <1>1, <2>4, <2>5, <3>1, ReorderedOnce
  <2>. QED  BY <2>5, <2>6
<1>4. ASSUME NEW q \in Proc, q # p, StoreStep(q) PROVE FALSE
  BY <1>1, <1>2, <1>4, ElsewhereStep DEF Elsewhere
<1>5. ASSUME NEW q \in Proc, Command(q) \/ Killed(q) PROVE FALSE
  BY <1>5, CommandStarts DEF Killed, store
<1>6. CASE Handlers \/ Loader \/ AskRefresh(Gui) \/ GuiKilled \/ UNCHANGED cardsVars
  <2>1. list' = list
    BY <1>6 DEF Handlers, initialize, saveServiceCard, deleteServiceCard, moveServiceCard, setPrivacyCardPrivate, Handle,
                togglePrivacyMode, Loader, LoaderStart, LoaderEnds, AskRefresh, GuiKilled, Killed, cardsVars, svars, store
  <2>. QED  BY <2>1
<1>. QED  BY <1>1, <1>3, <1>4, <1>5, <1>6 DEF CardsNext, CommandStep

\* A move of one ordinary card leaves private services, and those another process adds, where they
\* are in the order of all services.
THEOREM MovesAreLocal ==
    ASSUME StoreAssumption
    PROVE  CardsSpec => MovesKeepPrivatePlaces
<1>1. ASSUME ServicesKept, [CardsNext]_cardsVars
      PROVE  [\A p \in Proc : At(p, "move") /\ ~At(p, "move")' /\ ~op[p].all /\ list' # list =>
                /\ Len(list') = Len(list)
                /\ \A i \in DOMAIN list : list[i] \in private => list'[i] = list[i]]_svars
  BY <1>1, MoveStep
<1>. QED  BY <1>1, Invariance, PTL DEF CardsSpec, MovesKeepPrivatePlaces

-----------------------------------------------------------------------------
(* The history.  Rows in the order of their ids *)

Distinct(rows) == \A r, s \in rows : r.id = s.id => r = s
Numbered(rows) == rows \subseteq Record /\ IsFiniteSet(rows) /\ Distinct(rows)

\* How many rows are at least as new as r.
Place(rows, r) == Cardinality({s \in rows : s.id >= r.id})

LEMMA IdIsNumber == \A r \in Record : r.id \in Int
  BY DEF Record

\* The places of the rows are an injection into as many numbers, so every number is the place of a row.
LEMMA EveryPlace ==
    ASSUME NEW rows, Numbered(rows)
    PROVE  /\ Cardinality(rows) \in Nat
           /\ \A i \in 1 .. Cardinality(rows) : \E r \in rows : Place(rows, r) = i
<1> DEFINE N == Cardinality(rows)
           newer(r) == {s \in rows : s.id >= r.id}
           place == [r \in rows |-> Place(rows, r)]
<1>1. IsFiniteSet(rows) /\ N \in Nat /\ \A r \in rows : r.id \in Int
  BY FS_CardinalityType, IdIsNumber DEF Numbered
<1>2. ASSUME NEW r \in rows
      PROVE  /\ newer(r) \in SUBSET rows /\ IsFiniteSet(newer(r)) /\ r \in newer(r)
             /\ Place(rows, r) = Cardinality(newer(r)) /\ Place(rows, r) \in 1 .. N
  <2>1. newer(r) \in SUBSET rows /\ r \in newer(r) /\ Place(rows, r) = Cardinality(newer(r))
    BY <1>1 DEF Place
  <2>2. IsFiniteSet(newer(r)) /\ Cardinality(newer(r)) <= N
    BY <1>1, <2>1, FS_Subset
  <2>3. Cardinality(newer(r)) \in Nat
    BY <2>2, FS_CardinalityType
  <2>4. Cardinality(newer(r)) # 0
    BY <2>1, <2>2, FS_EmptySet
  <2>. QED  BY <1>1, <2>1, <2>2, <2>3, <2>4
<1>3. ASSUME NEW r \in rows, NEW s \in rows, Place(rows, r) = Place(rows, s), r.id > s.id
      PROVE  FALSE
  <2>1. newer(r) \in SUBSET newer(s) /\ s \notin newer(r) /\ s \in newer(s)
    BY <1>1, <1>3
  <2>2. IsFiniteSet(newer(s)) /\ Cardinality(newer(r)) = Cardinality(newer(s))
    BY <1>2, <1>3
  <2>3. newer(r) = newer(s)
    BY <2>1, <2>2, FS_Subset
  <2>. QED  BY <2>1, <2>3
<1>4. place \in [rows -> 1 .. N]
  BY <1>2
<1>5. place \in Injection(rows, 1 .. N)
  <2>1. ASSUME NEW r \in rows, NEW s \in rows, place[r] = place[s] PROVE r = s
    <3>1. Place(rows, r) = Place(rows, s)
      BY <2>1
    <3>2. r.id = s.id
      BY <1>1, <1>3, <3>1
    <3>. QED  BY <3>2 DEF Numbered, Distinct
  <2>. QED  BY <1>4, <2>1, Fun_IsInj
<1>6. IsFiniteSet(1 .. N) /\ Cardinality(1 .. N) = N
  BY <1>1, FS_Interval
<1>7. place \in Surjection(rows, 1 .. N)
  <2>. HIDE DEF place
  <2>1. Cardinality(rows) = Cardinality(1 .. N)
    BY <1>6
  <2>. QED  BY <1>5, <1>6, <2>1, FS_Injection
<1>8. \A i \in 1 .. N : \E r \in rows : place[r] = i
  <2>. HIDE DEF place
  <2>. QED  BY <1>7 DEF Surjection
<1>9. \A r \in rows : place[r] = Place(rows, r)
  OBVIOUS
<1>. QED  BY <1>1, <1>8, <1>9

LEMMA NewestIsSeq ==
    ASSUME NEW rows, Numbered(rows)
    PROVE  /\ Newest(rows) \in Seq(rows) /\ Len(Newest(rows)) = Cardinality(rows)
           /\ DOMAIN Newest(rows) = 1 .. Cardinality(rows)
           /\ \A i \in 1 .. Cardinality(rows) : Newest(rows)[i] \in rows
<1> DEFINE N == Cardinality(rows)
           e(i) == CHOOSE r \in rows : Cardinality({s \in rows : s.id >= r.id}) = i
<1>1. N \in Nat /\ \A i \in 1 .. N : e(i) \in rows
  <2>1. N \in Nat /\ \A i \in 1 .. N : \E r \in rows : Cardinality({s \in rows : s.id >= r.id}) = i
    BY EveryPlace DEF Place
  <2>2. ASSUME NEW i \in 1 .. N PROVE e(i) \in rows
    BY <2>1
  <2>. QED  BY <2>1, <2>2
<1>2. Newest(rows) = [i \in 1 .. N |-> e(i)]
  BY DEF Newest
<1>. HIDE DEF e
<1>3. Newest(rows) \in [1 .. N -> rows]
  BY <1>1, <1>2
<1>4. Newest(rows) \in Seq(rows)
  BY <1>1, <1>3, SeqDef
<1>. QED  BY <1>1, <1>3, <1>4, LenProperties

-----------------------------------------------------------------------------
(* The tables *)

(***************************************************************************)
(* The two tables together have every id once, and the next playback gets  *)
(* an id that none has.                                                    *)
(***************************************************************************)
Rows(d) == d.history \union d.links
Sound(d) ==
    /\ d \in Tables /\ d.next # 0
    /\ IsFiniteSet(Rows(d)) /\ Distinct(Rows(d)) /\ \A r \in Rows(d) : r.id < d.next

Matched(d) == ~d.torn => d.links = {r \in d.history : r.title \in Links}

LEMMA RowsFewer ==
    ASSUME NEW d, Sound(d), NEW e, e \in Tables, Rows(e) \subseteq Rows(d), e.next = d.next
    PROVE  Sound(e)
<1>1. IsFiniteSet(Rows(e))
  BY FS_Subset DEF Sound
<1>. QED  BY <1>1 DEF Sound, Distinct

\* What is removed from both tables by its id.
LEMMA DeletingKeeps ==
    ASSUME NEW d, Sound(d), Matched(d), NEW ids
    PROVE  LET e == [d EXCEPT !.history = {r \in @ : r.id \notin ids}, !.links = {r \in @ : r.id \notin ids}]
           IN Sound(e) /\ Matched(e)
<1> DEFINE e == [d EXCEPT !.history = {r \in @ : r.id \notin ids}, !.links = {r \in @ : r.id \notin ids}]
<1>1. e \in Tables /\ Rows(e) \subseteq Rows(d) /\ e.next = d.next
  BY DEF Sound, Tables, Rows
<1>2. Sound(e)
  BY <1>1, RowsFewer
<1>3. Matched(e)
  BY DEF Matched, Sound, Tables
<1>. QED  BY <1>2, <1>3

LEMMA DeleteKeeps ==
    ASSUME NEW d, Sound(d), Matched(d), NEW id
    PROVE  Sound(deletePlaybackHistory(d, id)) /\ Matched(deletePlaybackHistory(d, id))
<1> DEFINE ids == {id}
           e == [d EXCEPT !.history = {r \in @ : r.id \notin ids}, !.links = {r \in @ : r.id \notin ids}]
<1>1. deletePlaybackHistory(d, id) = e
  BY DEF deletePlaybackHistory
<1>. HIDE DEF ids
<1>2. Sound(e) /\ Matched(e)
  BY DeletingKeeps
<1>. QED  BY <1>1, <1>2

LEMMA DeleteForDateKeeps ==
    ASSUME NEW d, Sound(d), Matched(d), NEW privacy, NEW day
    PROVE  /\ Sound(deletePlaybackHistoryForDate(d, privacy, day))
           /\ Matched(deletePlaybackHistoryForDate(d, privacy, day))
<1> DEFINE ids == {r.id : r \in {q \in Visible(d, privacy) : q.day = day}}
           e == [d EXCEPT !.history = {r \in @ : r.id \notin ids}, !.links = {r \in @ : r.id \notin ids}]
<1>1. deletePlaybackHistoryForDate(d, privacy, day) = e
  BY DEF deletePlaybackHistoryForDate
<1>. HIDE DEF ids
<1>2. Sound(e) /\ Matched(e)
  BY DeletingKeeps
<1>. QED  BY <1>1, <1>2

LEMMA PruneKeeps ==
    ASSUME NEW d, Sound(d), Matched(d)
    PROVE  Sound(pruneOldHistory(d)) /\ Matched(pruneOldHistory(d))
<1> DEFINE e == pruneOldHistory(d)
<1>1. e \in Tables /\ Rows(e) \subseteq Rows(d) /\ e.next = d.next
  BY DEF Sound, Tables, Rows, pruneOldHistory
<1>2. Sound(e)
  BY <1>1, RowsFewer
<1>3. Matched(e)
  BY DEF Matched, Sound, Tables, pruneOldHistory
<1>. QED  BY <1>2, <1>3

LEMMA MigrateKeeps ==
    ASSUME NEW d, Sound(d), Matched(d)
    PROVE  Sound(MigrateLinks(d)) /\ Matched(MigrateLinks(d))
<1> DEFINE e == MigrateLinks(d)
<1>1. e \in Tables /\ Rows(e) \subseteq Rows(d) /\ e.next = d.next
  BY DEF Sound, Tables, Rows, MigrateLinks
<1>2. Sound(e)
  BY <1>1, RowsFewer
<1>3. Matched(e)
  BY DEF Matched, Sound, Tables, MigrateLinks
<1>. QED  BY <1>2, <1>3

\* The record of a playback; a link's may be missing in the table of the links, which is then "torn".
LEMMA SaveKeeps ==
    ASSUME NEW d, Sound(d), Matched(d), NEW record \in Record, record.id = d.next
    PROVE  LET saved == savePlaybackHistory(d, record)
           IN /\ Sound(saved) /\ Sound([saved EXCEPT !.torn = TRUE]) /\ Matched([saved EXCEPT !.torn = TRUE])
              /\ Sound(saveLinkPlaybackHistory(saved, record))
              /\ record.title \notin Links => Matched(saved)
              /\ record.title \in Links => Matched(saveLinkPlaybackHistory(saved, record))
<1> DEFINE saved == savePlaybackHistory(d, record)
           both == saveLinkPlaybackHistory(saved, record)
           torn == [saved EXCEPT !.torn = TRUE]
           all == Rows(d) \union {record}
<1>1. IsFiniteSet(all)
  <2>1. IsFiniteSet(Rows(d))
    BY DEF Sound
  <2>. QED  BY <2>1, FS_AddElement
<1>2. Distinct(all) /\ \A r \in all : r.id < d.next + 1
  <2>1. \A r \in Rows(d) : r.id \in Int /\ r.id < d.next
    BY IdIsNumber DEF Sound, Rows, Tables
  <2>2. d.next \in Nat
    BY DEF Sound, Tables
  <2>3. Distinct(Rows(d))
    BY DEF Sound
  <2>. QED  BY <2>1, <2>2, <2>3 DEF Distinct
<1>3. ASSUME NEW e \in Tables, Rows(e) \subseteq all, e.next = d.next + 1
      PROVE  Sound(e)
  <2>1. IsFiniteSet(Rows(e))
    BY <1>1, <1>3, FS_Subset
  <2>2. e.next # 0
    BY <1>3 DEF Sound, Tables
  <2>. HIDE DEF all
  <2>. QED  BY <1>2, <1>3, <2>1, <2>2 DEF Sound, Distinct
<1>4. /\ saved \in Tables /\ Rows(saved) \subseteq all /\ saved.next = d.next + 1
      /\ saved.history = Replaced(d.history, record) /\ saved.links = d.links /\ saved.torn = d.torn
  <2>1. Replaced(d.history, record) \in SUBSET Record
    BY DEF Sound, Tables, Replaced
  <2>2. d \in Tables /\ d.next + 1 \in Nat
    BY DEF Sound, Tables
  <2>3. /\ saved \in Tables /\ saved.next = d.next + 1
        /\ saved.history = Replaced(d.history, record) /\ saved.links = d.links /\ saved.torn = d.torn
    BY <2>1, <2>2 DEF Tables, savePlaybackHistory
  <2>. QED  BY <2>3 DEF Rows, Replaced
<1>5. /\ both \in Tables /\ Rows(both) \subseteq all /\ both.next = d.next + 1
      /\ both.history = saved.history /\ both.links = Replaced(d.links, record) /\ both.torn = d.torn
  BY <1>4 DEF Sound, Tables, Rows, saveLinkPlaybackHistory, Replaced
<1>6. torn \in Tables /\ Rows(torn) \subseteq all /\ torn.next = d.next + 1 /\ torn.torn = TRUE
  BY <1>4 DEF Tables, Rows
<1>7. Sound(saved) /\ Sound(both) /\ Sound(torn)
  BY <1>3, <1>4, <1>5, <1>6
<1>8. record.title \notin Links => Matched(saved)
  BY <1>4 DEF Matched, Replaced
<1>9. record.title \in Links => Matched(both)
  BY <1>4, <1>5 DEF Matched, Replaced
<1>10. Matched(torn)
  BY <1>6 DEF Matched
<1>. QED  BY <1>7, <1>8, <1>9, <1>10

-----------------------------------------------------------------------------
(* What the queries return *)

Item == [id: Nat, title: Title, private: BOOLEAN, available: BOOLEAN]
Clean(rows) == \A i \in DOMAIN rows : ~rows[i].private

LEMMA RowsNumbered ==
    ASSUME NEW d, Sound(d), NEW rows, rows \subseteq Rows(d)
    PROVE  Numbered(rows)
<1>1. IsFiniteSet(rows)
  BY FS_Subset DEF Sound
<1>2. rows \subseteq Record
  BY DEF Sound, Tables, Rows
<1>. QED  BY <1>1, <1>2 DEF Numbered, Sound, Distinct

LEMMA ItemsOf ==
    ASSUME NEW d, Sound(d), NEW rows, rows \subseteq d.history
    PROVE  LET items == prepareGlobalHistoryItems(d, Newest(rows))
           IN /\ items \in Seq(Item)
              /\ (\A r \in rows : ~Private(d, r)) => Clean(items)
<1> DEFINE newest == Newest(rows)
           item(i) == [id |-> newest[i].id, title |-> newest[i].title, private |-> Private(d, newest[i]),
                       available |-> newest[i].title \in Media => ~d.gone]
           items == prepareGlobalHistoryItems(d, newest)
<1>1. Numbered(rows)
  BY RowsNumbered DEF Rows
<1>2. Len(newest) \in Nat /\ DOMAIN newest = 1 .. Len(newest) /\ \A i \in DOMAIN newest : newest[i] \in rows
  BY <1>1, NewestIsSeq, EveryPlace
<1>. HIDE DEF newest
<1>3. ASSUME NEW i \in DOMAIN newest
      PROVE  item(i) \in Item /\ item(i).private = Private(d, newest[i])
  <2>1. newest[i] \in Record
    BY <1>1, <1>2 DEF Numbered
  <2>2. newest[i].id \in Nat /\ newest[i].title \in Title
    BY <2>1 DEF Record
  <2>3. Private(d, newest[i]) \in BOOLEAN
    BY DEF Private
  <2>. QED  BY <2>2, <2>3 DEF Item
<1>4. items = [i \in DOMAIN newest |-> item(i)]
  BY DEF prepareGlobalHistoryItems
<1>. HIDE DEF item, items
<1>5. items \in Seq(Item)
  <2>1. items \in [1 .. Len(newest) -> Item]
    BY <1>2, <1>3, <1>4
  <2>. QED  BY <1>2, <2>1, SeqDef
<1>6. ASSUME \A r \in rows : ~Private(d, r), NEW i \in DOMAIN items PROVE ~items[i].private
  BY <1>2, <1>3, <1>4, <1>6
<1>. QED  BY <1>5, <1>6 DEF Clean, items, newest

LEMMA MatchingItems ==
    ASSUME NEW d, Sound(d), NEW privacy \in BOOLEAN, NEW filter
    PROVE  /\ Matching(d, privacy, filter) \in Seq(Item)
           /\ ~privacy => Clean(Matching(d, privacy, filter))
<1> DEFINE rows == {r \in Fresh(d, Visible(d, privacy)) : filter \in {"All", Source(r.title)}}
<1>1. rows \subseteq d.history /\ (~privacy => \A r \in rows : ~Private(d, r))
  BY DEF Fresh, Visible
<1>2. Matching(d, privacy, filter) = prepareGlobalHistoryItems(d, Newest(rows))
  BY DEF Matching
<1>. HIDE DEF rows
<1>. QED  BY <1>1, <1>2, ItemsOf

LEMMA DateItems ==
    ASSUME NEW d, Sound(d), NEW privacy \in BOOLEAN, NEW day
    PROVE  /\ loadPlaybackHistoryForDate(d, privacy, day) \in Seq(Item)
           /\ ~privacy => Clean(loadPlaybackHistoryForDate(d, privacy, day))
<1> DEFINE rows == {r \in Fresh(d, Visible(d, privacy)) : r.day = day}
<1>1. rows \subseteq d.history /\ (~privacy => \A r \in rows : ~Private(d, r))
  BY DEF Fresh, Visible
<1>2. loadPlaybackHistoryForDate(d, privacy, day) = prepareGlobalHistoryItems(d, Newest(rows))
  BY DEF loadPlaybackHistoryForDate
<1>. HIDE DEF rows
<1>. QED  BY <1>1, <1>2, ItemsOf

LEMMA LinkRows ==
    ASSUME NEW d, Sound(d), NEW privacy \in BOOLEAN
    PROVE  loadLinkPlaybackHistory(d, privacy) \in Seq(Record)
<1> DEFINE rows == {r \in Fresh(d, d.links) : privacy \/ ~r.private}
<1>1. rows \subseteq Rows(d)
  BY DEF Fresh, Rows
<1>2. Numbered(rows)
  BY <1>1, RowsNumbered
<1>3. loadLinkPlaybackHistory(d, privacy) = Newest(rows)
  BY DEF loadLinkPlaybackHistory
<1>. HIDE DEF rows
<1>4. Len(Newest(rows)) \in Nat /\ DOMAIN Newest(rows) = 1 .. Len(Newest(rows))
      /\ \A i \in DOMAIN Newest(rows) : Newest(rows)[i] \in Record
  BY <1>2, NewestIsSeq, EveryPlace DEF Numbered
<1>5. Newest(rows) \in Seq(rows)
  BY <1>2, NewestIsSeq
<1>6. Newest(rows) \in [1 .. Len(Newest(rows)) -> Record]
  BY <1>4, <1>5, LenProperties
<1>. QED  BY <1>3, <1>4, <1>6, SeqDef

\* A page ends after PageSize rows, or earlier where nothing follows.
LEMMA PageOfMatching ==
    ASSUME NEW d, Sound(d), NEW privacy \in BOOLEAN, NEW start \in Nat, NEW filter
    PROVE  LET all == Matching(d, privacy, filter)
               loaded == loadPlaybackHistory(d, privacy, start, filter)
           IN /\ loaded \in Seq(Item) /\ Len(loaded) \in Nat
              /\ ~privacy => Clean(loaded)
              /\ start <= Len(all) =>
                   /\ start + Len(loaded) <= Len(all)
                   /\ loaded = SubSeq(all, start + 1, start + Len(loaded))
                   /\ Len(loaded) # PageSize => start + Len(loaded) = Len(all)
<1> DEFINE all == Matching(d, privacy, filter)
           end == Min({start + PageSize, Len(all)})
           loaded == loadPlaybackHistory(d, privacy, start, filter)
<1>1. all \in Seq(Item) /\ Len(all) \in Nat /\ (\A i \in 1 .. Len(all) : all[i] \in Item) /\ DOMAIN all = 1 .. Len(all)
  BY MatchingItems, LenProperties
<1>2. loaded = SubSeq(all, start + 1, end)
  BY DEF loadPlaybackHistory
<1>3. ~privacy => Clean(all)
  BY MatchingItems
<1>. HIDE DEF all
<1>4. /\ end \in Int /\ end <= start + PageSize /\ end <= Len(all)
      /\ end = start + PageSize \/ end = Len(all)
  <2>1. start + PageSize \in Int /\ Len(all) \in Int
    BY <1>1, HistoryAssumption DEF HistoryAssumption
  <2>2. \E e \in {start + PageSize, Len(all)} : \A f \in {start + PageSize, Len(all)} : e <= f
    BY <2>1
  <2>. QED  BY <2>1, <2>2 DEF Min
<1>. HIDE DEF end
<1>5. ASSUME NEW i \in start + 1 .. end PROVE all[i] \in Item
  <2>1. i \in Int /\ start + 1 <= i /\ i <= end
    BY <1>4
  <2>2. Len(all) \in Nat /\ end <= Len(all) /\ end \in Int
    BY <1>1, <1>4
  <2>. HIDE DEF all, end
  <2>3. i \in 1 .. Len(all)
    BY <2>1, <2>2
  <2>. QED  BY <1>1, <2>3
<1>6. /\ loaded \in Seq(Item) /\ Len(loaded) = IF start + 1 <= end THEN end - (start + 1) + 1 ELSE 0
      /\ \A i \in 1 .. end - (start + 1) + 1 : loaded[i] = all[start + 1 + i - 1]
  BY <1>2, <1>4, <1>5, SubSeqProperties
<1>. HIDE DEF loaded
<1>7. DOMAIN loaded = 1 .. Len(loaded) /\ Len(loaded) \in Nat
  BY <1>6, LenProperties
<1>10. /\ Len(all) \in Nat /\ end \in Int /\ end <= Len(all)
       /\ Len(loaded) = IF start + 1 <= end THEN end - (start + 1) + 1 ELSE 0
  <2>1. Len(all) \in Nat
    BY <1>1
  <2>2. end \in Int /\ end <= Len(all)
    BY <1>4
  <2>3. Len(loaded) = IF start + 1 <= end THEN end - (start + 1) + 1 ELSE 0
    BY <1>6
  <2>. QED  BY <2>1, <2>2, <2>3
<1>8. ASSUME ~privacy PROVE Clean(loaded)
  <2>1. \A i \in DOMAIN all : ~all[i].private
    BY <1>3, <1>8 DEF Clean
  <2>2. ASSUME NEW i \in DOMAIN loaded PROVE ~loaded[i].private
    <3>1. i \in 1 .. end - (start + 1) + 1 /\ start + 1 + i - 1 \in 1 .. Len(all)
      BY <1>7, <1>10
    <3>2. loaded[i] = all[start + 1 + i - 1]
      BY <1>6, <3>1
    <3>. QED  BY <1>1, <2>1, <3>1, <3>2
  <2>. QED  BY <2>2 DEF Clean
<1>9. ASSUME start <= Len(all)
      PROVE  /\ start + Len(loaded) <= Len(all) /\ end = start + Len(loaded)
             /\ Len(loaded) # PageSize => start + Len(loaded) = Len(all)
  <2>1. PageSize \in Nat \ {0} /\ (end = start + PageSize \/ end = Len(all))
    BY <1>4, HistoryAssumption DEF HistoryAssumption
  <2>. QED  BY <1>7, <1>9, <1>10, <2>1
<1>. QED  BY <1>2, <1>6, <1>7, <1>8, <1>9 DEF all, loaded

-----------------------------------------------------------------------------
(* The pages *)

Ask == [reset: BOOLEAN, privacy: BOOLEAN, rows: Seq(Item)]
LinkAsk == [privacy: BOOLEAN, rows: Seq(Record)]
UI == [view: {"services", "history", "link", "player"}, privacy: BOOLEAN, filter: {"All", "Link"},
       rows: Seq(Item), start: Nat, more: BOOLEAN, loading: BOOLEAN, owed: BOOLEAN, asked: SUBSET Ask,
       linkRows: Seq(Record), linkAsked: SUBSET LinkAsk,
       dialog: BOOLEAN, days: SUBSET Day, day: {0} \union Day, dayRows: Seq(Item),
       playing: Title \union {None}, hidden: BOOLEAN, noted: BOOLEAN, failed: BOOLEAN]

AtMostOne(S) == \A q, r \in S : q = r

\* Who waits for what, whatever is shown.
Asking(u) ==
    /\ u.loading = (u.asked # {})
    /\ AtMostOne(u.asked) /\ AtMostOne(u.linkAsked)
    /\ u.owed => u.view = "history" /\ u.asked = {}
    /\ \A q \in u.asked : ~q.privacy => Clean(q.rows)
    /\ u.view = "player" => u.playing # None

\* The history page, once it was read again after it was opened: a page in request continues it.
Shows(u, d, old) ==
    u.view = "history" /\ ~u.owed =>
      /\ ~u.privacy => Clean(u.rows)
      /\ ~old =>
           /\ u.start <= Len(Matching(d, u.privacy, u.filter))
           /\ u.rows = SubSeq(Matching(d, u.privacy, u.filter), 1, u.start)
           /\ ~u.loading /\ ~u.more /\ ~u.failed => u.start = Len(Matching(d, u.privacy, u.filter))
           /\ \A q \in u.asked :
                /\ q.privacy = u.privacy /\ (q.reset => u.start = 0)
                /\ q.rows = loadPlaybackHistory(d, u.privacy, u.start, u.filter)

\* The dialog is over the page, and the page cannot be left under it.
Covers(u) == u.dialog => u.view = "history" /\ ~u.owed /\ (~u.privacy => Clean(u.dayRows))

Good(u, d, old) == u \in UI /\ Asking(u) /\ Shows(u, d, old) /\ Covers(u)

\* Whatever was awaited is forgotten, and the first page is read.
Reread(u, d) ==
    [u EXCEPT !.asked = Asked(u, d, TRUE, 0), !.owed = FALSE, !.loading = TRUE, !.start = 0, !.rows = <<>>]

LEMMA PageRefreshIs ==
    ASSUME NEW u \in UI, NEW d
    PROVE  refreshGlobalHistory(u, d) = Reread(u, d)
<1>1. CASE u.loading
  <2> DEFINE v == [Forgotten(u) EXCEPT !.loading = FALSE]
  <2>1. v = [u EXCEPT !.asked = {}, !.owed = FALSE, !.loading = FALSE]
    BY DEF Forgotten, UI
  <2>2. refreshGlobalHistory(u, d) = [Forgotten(v) EXCEPT !.loading = TRUE, !.start = 0, !.rows = <<>>,
                                                          !.asked = Asked(v, d, TRUE, 0)]
    BY <1>1, <2>1 DEF refreshGlobalHistory, loadGlobalHistoryPage, UI
  <2>3. Asked(v, d, TRUE, 0) = Asked(u, d, TRUE, 0)
    BY <2>1 DEF Asked, UI
  <2>. HIDE DEF v
  <2>. QED  BY <2>1, <2>2, <2>3 DEF Forgotten, UI, Reread
<1>2. CASE ~u.loading
  BY <1>2 DEF refreshGlobalHistory, loadGlobalHistoryPage, Forgotten, UI, Reread
<1>. QED  BY <1>1, <1>2

\* What a refresh asks for is the first page of what it will show.
LEMMA AskedIs ==
    ASSUME NEW u \in UI, NEW d, Sound(d), NEW reset \in BOOLEAN, NEW start \in Nat
    PROVE  /\ Asked(u, d, reset, start) \in SUBSET Ask /\ Asked(u, d, reset, start) # {}
           /\ AtMostOne(Asked(u, d, reset, start))
           /\ \A q \in Asked(u, d, reset, start) :
                /\ q.reset = reset /\ q.privacy = u.privacy
                /\ q.rows = loadPlaybackHistory(d, u.privacy, start, u.filter)
                /\ ~q.privacy => Clean(q.rows)
<1> DEFINE loaded == loadPlaybackHistory(d, u.privacy, start, u.filter)
           q == [reset |-> reset, privacy |-> u.privacy, rows |-> loaded]
<1>1. u.privacy \in BOOLEAN /\ u.filter \in {"All", "Link"}
  BY DEF UI
<1>2. loaded \in Seq(Item) /\ (~u.privacy => Clean(loaded))
  BY <1>1, PageOfMatching
<1>3. Asked(u, d, reset, start) = {q}
  BY DEF Asked
<1>4. q \in Ask
  <2>. HIDE DEF loaded
  <2>. QED  BY <1>1, <1>2 DEF Ask
<1>5. q.reset = reset /\ q.privacy = u.privacy /\ q.rows = loaded
  OBVIOUS
<1>. HIDE DEF q
<1>. QED  BY <1>2, <1>3, <1>4, <1>5 DEF AtMostOne

LEMMA RefreshKeeps ==
    ASSUME NEW u \in UI, NEW d, Sound(d), NEW old,
           AtMostOne(u.linkAsked), u.view = "player" => u.playing # None, Covers([u EXCEPT !.owed = FALSE])
    PROVE  Good(refreshGlobalHistory(u, d), d, old)
<1> DEFINE asked == Asked(u, d, TRUE, 0)
           v == Reread(u, d)
<1>1. /\ asked \in SUBSET Ask /\ asked # {} /\ AtMostOne(asked)
      /\ \A q \in asked : /\ q.privacy = u.privacy /\ (~q.privacy => Clean(q.rows))
                          /\ q.rows = loadPlaybackHistory(d, u.privacy, 0, u.filter)
  <2>1. 0 \in Nat
    OBVIOUS
  <2>2. ASSUME NEW reset \in BOOLEAN, reset = TRUE
        PROVE  /\ Asked(u, d, reset, 0) \in SUBSET Ask /\ Asked(u, d, reset, 0) # {}
               /\ AtMostOne(Asked(u, d, reset, 0))
               /\ \A q \in Asked(u, d, reset, 0) :
                    /\ q.privacy = u.privacy /\ (~q.privacy => Clean(q.rows))
                    /\ q.rows = loadPlaybackHistory(d, u.privacy, 0, u.filter)
    BY <2>1, AskedIs
  <2>. QED  BY <2>2
<1>2. v = [u EXCEPT !.asked = asked, !.owed = FALSE, !.loading = TRUE, !.start = 0, !.rows = <<>>]
  BY DEF Reread
<1>. HIDE DEF asked, v
<1>3. v \in UI
  <2>1. <<>> \in Seq(Item) /\ 0 \in Nat
    OBVIOUS
  <2>2. asked \in SUBSET Ask
    BY <1>1
  <2>. QED  BY <1>2, <2>1, <2>2 DEF UI
<1>4. Asking(v)
  BY <1>1, <1>2 DEF UI, Asking
<1>5. Shows(v, d, old)
  <2>1. Clean(<<>>)
    BY DEF Clean
  <2>2. u.privacy \in BOOLEAN
    BY DEF UI
  <2> DEFINE all == Matching(d, u.privacy, u.filter)
  <2>3. all \in Seq(Item) /\ Len(all) \in Nat
    BY <2>2, MatchingItems, LenProperties
  <2>. HIDE DEF all
  <2>4. SubSeq(all, 1, 0) = <<>> /\ 0 <= Len(all)
    <3>1. 1 \in Int /\ 0 \in Int /\ 0 < 1
      OBVIOUS
    <3>2. SubSeq(all, 1, 0) = <<>>
      BY <3>1, SubSeqEmpty
    <3>. QED  BY <2>3, <3>2
  <2>5. /\ v.rows = <<>> /\ v.start = 0 /\ v.loading = TRUE /\ v.asked = asked
        /\ v.privacy = u.privacy /\ v.filter = u.filter
    BY <1>2 DEF UI
  <2>. QED  BY <1>1, <2>1, <2>4, <2>5 DEF Shows, all
<1>6. Covers(v)
  BY <1>2 DEF UI, Covers
<1>. QED  BY <1>3, <1>4, <1>5, <1>6, PageRefreshIs DEF Good, v

LEMMA RefreshLinksIs ==
    ASSUME NEW u \in UI, NEW d, Sound(d)
    PROVE  \E asked \in SUBSET LinkAsk :
             AtMostOne(asked) /\ refreshLinkPlaybackHistory(u, d) = [u EXCEPT !.linkAsked = asked]
<1> DEFINE rows == loadLinkPlaybackHistory(d, u.privacy)
           q == [privacy |-> u.privacy, rows |-> rows]
<1>1. u.privacy \in BOOLEAN
  BY DEF UI
<1>2. rows \in Seq(Record)
  BY <1>1, LinkRows
<1>. HIDE DEF rows
<1>3. q \in LinkAsk
  BY <1>1, <1>2 DEF LinkAsk
<1>4. refreshLinkPlaybackHistory(u, d) = [u EXCEPT !.linkAsked = {q}]
  BY DEF refreshLinkPlaybackHistory, rows
<1>. HIDE DEF q
<1>5. {q} \in SUBSET LinkAsk /\ AtMostOne({q})
  BY <1>3 DEF AtMostOne
<1>. QED  BY <1>4, <1>5

View == {"services", "history", "link", "player"}

\* Left for anything but the player, the history page forgets what it asked for.
LEMMA ViewIs ==
    ASSUME NEW u \in UI, NEW view \in View
    PROVE  LET leaves == u.view = "history" /\ view \notin {"history", "player"}
               forgets == u.view = "link" /\ view \notin {"link", "player"}
           IN setCurrentView(u, view) =
                [u EXCEPT !.view = view, !.linkAsked = IF forgets THEN {} ELSE u.linkAsked,
                          !.asked = IF leaves THEN {} ELSE u.asked, !.owed = IF leaves THEN FALSE ELSE u.owed,
                          !.loading = IF leaves THEN FALSE ELSE u.loading]
<1>1. CASE u.view = "link" /\ view \notin {"link", "player"}
  BY <1>1 DEF setCurrentView, UI
<1>2. CASE u.view = "history" /\ view \notin {"history", "player"}
  BY <1>2 DEF setCurrentView, Forgotten, UI
<1>3. CASE /\ ~(u.view = "link" /\ view \notin {"link", "player"})
           /\ ~(u.view = "history" /\ view \notin {"history", "player"})
  BY <1>3 DEF setCurrentView, UI
<1>. QED  BY <1>1, <1>2, <1>3

-----------------------------------------------------------------------------
(* The invariant, and the steps *)

(***************************************************************************)
(* The tables are sound and match, and the pages are good for them.  The   *)
(* parts of HistoryInv are not enough: a page in request must continue     *)
(* what is shown, and the record that is saved needs an id that no row of  *)
(* either table has.                                                       *)
(***************************************************************************)
HistoryKept == Sound(db) /\ Matched(db) /\ Good(ui, db, stale) /\ rare \in 0 .. MaxRare

LEMMA RareBound == ASSUME rare \in 0 .. MaxRare, Rarely PROVE rare' \in 0 .. MaxRare
  BY HistoryAssumption DEF HistoryAssumption, Rarely

\* An accepted answer continues the page, and where it is short the page is complete.
LEMMA HistoryAnsweredKeeps == ASSUME HistoryKept, HistoryAnswered PROVE HistoryKept'
<1>1. PICK q \in ui.asked, ok \in BOOLEAN :
        LET u == [ui EXCEPT !.asked = {}, !.loading = FALSE]
        IN ui' = CASE q.privacy # ui.privacy -> u
                   [] q.privacy = ui.privacy /\ ~ok -> [u EXCEPT !.more = FALSE, !.failed = TRUE]
                   [] OTHER -> [u EXCEPT !.rows = IF q.reset THEN q.rows ELSE @ \o q.rows,
                                         !.start = @ + Len(q.rows), !.more = Len(q.rows) = PageSize, !.failed = FALSE]
  BY DEF HistoryAnswered
<1>2. /\ ui \in UI /\ Asking(ui) /\ Shows(ui, db, stale) /\ Covers(ui) /\ Sound(db)
      /\ db' = db /\ rare' = rare /\ stale' = stale
  BY DEF HistoryKept, Good, HistoryAnswered
<1>3. q \in Ask /\ ui.start \in Nat /\ ui.rows \in Seq(Item) /\ ui.privacy \in BOOLEAN
  BY <1>1, <1>2 DEF UI
<1>4. q.rows \in Seq(Item) /\ q.privacy \in BOOLEAN /\ q.reset \in BOOLEAN /\ (~q.privacy => Clean(q.rows))
  BY <1>1, <1>2, <1>3 DEF Ask, Asking
<1>5. Len(q.rows) \in Nat /\ ui.start + Len(q.rows) \in Nat /\ ui.rows \o q.rows \in Seq(Item)
  BY <1>3, <1>4, LenProperties, ConcatProperties
<1>6. ~ui.owed
  BY <1>1, <1>2 DEF Asking
<1>7. CASE q.privacy # ui.privacy
  <2>1. ui' = [ui EXCEPT !.asked = {}, !.loading = FALSE]
    BY <1>1, <1>7
  <2>2. ui' \in UI
    BY <1>2, <2>1 DEF UI
  <2>3. Asking(ui')
    BY <1>2, <1>6, <2>1 DEF Asking, UI, AtMostOne
  <2>4. Shows(ui', db, stale)
    BY <1>1, <1>2, <1>6, <1>7, <2>1 DEF Shows, UI
  <2>5. Covers(ui')
    BY <1>2, <2>1 DEF Covers, UI
  <2>. QED  BY <1>2, <2>2, <2>3, <2>4, <2>5 DEF HistoryKept, Good
<1>8. CASE q.privacy = ui.privacy /\ ~ok
  <2>1. ui' = [ui EXCEPT !.asked = {}, !.loading = FALSE, !.more = FALSE, !.failed = TRUE]
    BY <1>1, <1>2, <1>8 DEF UI
  <2>2. ui' \in UI
    BY <1>2, <2>1 DEF UI
  <2>3. Asking(ui')
    BY <1>2, <1>6, <2>1 DEF Asking, UI, AtMostOne
  <2>4. Shows(ui', db, stale)
    BY <1>1, <1>2, <1>6, <2>1 DEF Shows, UI
  <2>5. Covers(ui')
    BY <1>2, <2>1 DEF Covers, UI
  <2>. QED  BY <1>2, <2>2, <2>3, <2>4, <2>5 DEF HistoryKept, Good
<1>9. CASE q.privacy = ui.privacy /\ ok
  <2> DEFINE rows == IF q.reset THEN q.rows ELSE ui.rows \o q.rows
             start == ui.start + Len(q.rows)
             more == Len(q.rows) = PageSize
             all == Matching(db, ui.privacy, ui.filter)
  <2>1. ui' = [ui EXCEPT !.asked = {}, !.loading = FALSE, !.rows = rows, !.start = start, !.more = more, !.failed = FALSE]
    BY <1>1, <1>2, <1>9 DEF UI
  <2>2. rows \in Seq(Item) /\ start \in Nat /\ more \in BOOLEAN
    BY <1>4, <1>5
  <2>3. ASSUME ui.view = "history", ~ui.privacy PROVE Clean(rows)
    <3>1. Clean(q.rows) /\ Clean(ui.rows)
      BY <1>2, <1>4, <1>6, <1>9, <2>3 DEF Shows
    <3>2. Clean(ui.rows \o q.rows)
      <4>1. /\ Len(ui.rows) \in Nat /\ DOMAIN ui.rows = 1 .. Len(ui.rows)
            /\ DOMAIN q.rows = 1 .. Len(q.rows) /\ Len(ui.rows \o q.rows) = Len(ui.rows) + Len(q.rows)
            /\ DOMAIN (ui.rows \o q.rows) = 1 .. Len(ui.rows \o q.rows)
        BY <1>3, <1>4, <1>5, LenProperties, ConcatProperties
      <4>2. \A i \in 1 .. Len(ui.rows) + Len(q.rows) :
              (ui.rows \o q.rows)[i] = IF i <= Len(ui.rows) THEN ui.rows[i] ELSE q.rows[i - Len(ui.rows)]
        BY <1>3, <1>4, ConcatProperties
      <4>3. ASSUME NEW i \in 1 .. Len(ui.rows) + Len(q.rows) PROVE ~(ui.rows \o q.rows)[i].private
        <5>1. CASE i <= Len(ui.rows)
          <6>1. i \in DOMAIN ui.rows /\ (ui.rows \o q.rows)[i] = ui.rows[i]
            BY <4>1, <4>2, <5>1
          <6>. QED  BY <3>1, <6>1 DEF Clean
        <5>2. CASE ~(i <= Len(ui.rows))
          <6>1. i - Len(ui.rows) \in 1 .. Len(q.rows)
            <7> DEFINE first == Len(ui.rows)
                       second == Len(q.rows)
            <7>1. first \in Nat /\ second \in Nat /\ i \in 1 .. first + second /\ ~(i <= first)
              BY <1>5, <4>1, <5>2
            <7>. HIDE DEF first, second
            <7>2. i - first \in 1 .. second
              BY <7>1
            <7>. QED  BY <7>2 DEF first, second
          <6>2. (ui.rows \o q.rows)[i] = q.rows[i - Len(ui.rows)]
            BY <4>2, <5>2
          <6>. QED  BY <3>1, <4>1, <6>1, <6>2 DEF Clean
        <5>. QED  BY <5>1, <5>2
      <4>. QED  BY <4>1, <4>3 DEF Clean
    <3>. QED  BY <3>1, <3>2
  <2>4. ASSUME ui.view = "history", ~stale
        PROVE  start <= Len(all) /\ rows = SubSeq(all, 1, start) /\ (~more => start = Len(all))
    <3>1. /\ ui.start <= Len(all) /\ ui.rows = SubSeq(all, 1, ui.start) /\ (q.reset => ui.start = 0)
          /\ q.rows = loadPlaybackHistory(db, ui.privacy, ui.start, ui.filter)
      BY <1>1, <1>2, <1>6, <2>4 DEF Shows
    <3>2. start <= Len(all) /\ q.rows = SubSeq(all, ui.start + 1, start) /\ (~more => start = Len(all))
      <4> DEFINE loaded == loadPlaybackHistory(db, ui.privacy, ui.start, ui.filter)
      <4>1. ui.start <= Len(all) => /\ ui.start + Len(loaded) <= Len(all)
                                    /\ loaded = SubSeq(all, ui.start + 1, ui.start + Len(loaded))
                                    /\ Len(loaded) # PageSize => ui.start + Len(loaded) = Len(all)
        BY <1>2, <1>3, PageOfMatching
      <4>2. loaded = q.rows
        BY <3>1
      <4>. HIDE DEF loaded, all
      <4>. QED  BY <3>1, <4>1, <4>2
    <3>3. all \in Seq(Item) /\ Len(all) \in Nat
      BY <1>2, <1>3, MatchingItems, LenProperties
    <3>4. ui.rows \o q.rows = SubSeq(all, 1, start)
      <4>1. 1 \in 1 .. Len(all) + 1 /\ ui.start \in 1 - 1 .. Len(all) /\ start \in ui.start .. Len(all)
        BY <1>3, <1>5, <3>1, <3>2, <3>3
      <4>. HIDE DEF all, start
      <4>. QED  BY <3>1, <3>2, <3>3, <4>1, ConcatAdjacentSubSeq
    <3>5. q.reset => q.rows = SubSeq(all, 1, start)
      BY <3>1, <3>2
    <3>. QED  BY <3>2, <3>4, <3>5
  <2>. HIDE DEF rows, start, more
  <2>5. ui' \in UI
    BY <1>2, <2>1, <2>2 DEF UI
  <2>6. Asking(ui')
    BY <1>2, <1>6, <2>1 DEF Asking, UI, AtMostOne
  <2>7. Shows(ui', db, stale)
    <3>1. /\ ui'.rows = rows /\ ui'.start = start /\ ui'.more = more /\ ui'.asked = {}
          /\ ui'.view = ui.view /\ ui'.privacy = ui.privacy /\ ui'.filter = ui.filter
      BY <1>2, <2>1 DEF UI
    <3>. QED  BY <2>3, <2>4, <3>1 DEF Shows
  <2>8. Covers(ui')
    BY <1>2, <2>1 DEF Covers, UI
  <2>. QED  BY <1>2, <2>5, <2>6, <2>7, <2>8 DEF HistoryKept, Good
<1>. QED  BY <1>7, <1>8, <1>9

LEMMA RefreshStep ==
    ASSUME Sound(db'), Matched(db'), rare' \in 0 .. MaxRare,
           NEW u \in UI, AtMostOne(u.linkAsked), u.view = "player" => u.playing # None,
           Covers([u EXCEPT !.owed = FALSE]), ui' = refreshGlobalHistory(u, db')
    PROVE  HistoryKept'
<1>1. Good(refreshGlobalHistory(u, db'), db', stale')
  BY RefreshKeeps
<1>. QED  BY <1>1 DEF HistoryKept

\* What a page of another view brings: nothing is shown, and nothing covers it.
LEMMA ElsewhereIs ==
    ASSUME HistoryKept
    PROVE  /\ ui \in UI /\ AtMostOne(ui.linkAsked) /\ (ui.view = "player" => ui.playing # None) /\ rare \in 0 .. MaxRare
           /\ Sound(db) /\ Matched(db)
           /\ ui.view # "history" => ~ui.dialog
  BY DEF HistoryKept, Good, Asking, Covers

LEMMA openGlobalHistoryKeeps == ASSUME HistoryKept, openGlobalHistory PROVE HistoryKept'
<1> DEFINE u == [Forgotten(ui) EXCEPT !.loading = FALSE, !.playing = None]
<1>1. ui \in UI /\ ui.view = "services" /\ ui.dialog = FALSE /\ Asking(ui)
  BY DEF HistoryKept, Good, Covers, openGlobalHistory, UI
<1>2. u = [ui EXCEPT !.asked = {}, !.owed = FALSE, !.loading = FALSE, !.playing = None]
  BY <1>1 DEF Forgotten, UI
<1>3. u \in UI /\ u.view = "services"
  BY <1>1, <1>2 DEF UI
<1>. HIDE DEF u
<1>4. setCurrentView(u, "history") = [u EXCEPT !.view = "history"]
  BY <1>3 DEF setCurrentView, UI
<1>5. ui' = [setCurrentView(u, "history") EXCEPT !.owed = TRUE]
  BY DEF openGlobalHistory, u
<1>6. ui' = [ui EXCEPT !.view = "history", !.asked = {}, !.owed = TRUE, !.loading = FALSE, !.playing = None]
  BY <1>1, <1>2, <1>4, <1>5 DEF UI
<1>7. ui' \in UI
  BY <1>1, <1>6 DEF UI
<1>8. Asking(ui')
  BY <1>1, <1>6 DEF Asking, UI, AtMostOne
<1>9. Shows(ui', db', stale') /\ Covers(ui')
  BY <1>1, <1>6 DEF Shows, Covers, UI
<1>. QED  BY <1>7, <1>8, <1>9 DEF HistoryKept, Good, openGlobalHistory

LEMMA RefreshTimerKeeps == ASSUME HistoryKept, RefreshTimer PROVE HistoryKept'
<1>1. ui.view = "history"
  BY DEF HistoryKept, Good, Asking, RefreshTimer
<1>2. db' = db /\ rare' = rare /\ ui' = refreshGlobalHistory(ui, db')
  BY <1>1 DEF RefreshTimer
<1>3. Covers([ui EXCEPT !.owed = FALSE])
  BY DEF HistoryKept, Good, Covers, UI
<1>. QED  BY <1>2, <1>3, ElsewhereIs, RefreshStep

LEMMA RefreshActionKeeps == ASSUME HistoryKept, Refresh PROVE HistoryKept'
<1>1. db' = db /\ rare' = rare /\ ui' = refreshGlobalHistory(ui, db')
  BY DEF Refresh
<1>2. Covers([ui EXCEPT !.owed = FALSE])
  BY DEF HistoryKept, Good, Covers, UI
<1>. QED  BY <1>1, <1>2, ElsewhereIs, RefreshStep

LEMMA setGlobalHistoryFilterKeeps ==
    ASSUME HistoryKept, NEW filter \in {"All", "Link"}, setGlobalHistoryFilter(filter)
    PROVE  HistoryKept'
<1> DEFINE u == [ui EXCEPT !.filter = filter]
<1>1. db' = db /\ rare' = rare /\ ui' = refreshGlobalHistory(u, db') /\ ui.dialog = FALSE
  BY DEF setGlobalHistoryFilter, OnPage, HistoryKept, Good, UI
<1>2. u \in UI /\ AtMostOne(u.linkAsked) /\ (u.view = "player" => u.playing # None)
  BY ElsewhereIs DEF UI
<1>3. Covers([u EXCEPT !.owed = FALSE])
  BY <1>1, ElsewhereIs DEF Covers, UI
<1>. HIDE DEF u
<1>. QED  BY <1>1, <1>2, <1>3, ElsewhereIs, RefreshStep

LEMMA loadMoreGlobalHistoryKeeps == ASSUME HistoryKept, loadMoreGlobalHistory PROVE HistoryKept'
<1> DEFINE asked == Asked(ui, db, FALSE, ui.start)
<1>1. /\ ui \in UI /\ Asking(ui) /\ Shows(ui, db, stale) /\ Covers(ui) /\ Sound(db)
      /\ db' = db /\ rare' = rare /\ stale' = stale
      /\ ui.view = "history" /\ ~ui.owed /\ ~ui.loading /\ ui.start \in Nat
  BY DEF HistoryKept, Good, loadMoreGlobalHistory, OnPage, UI
<1>2. /\ asked \in SUBSET Ask /\ asked # {} /\ AtMostOne(asked)
      /\ \A q \in asked : /\ q.reset = FALSE /\ q.privacy = ui.privacy /\ (~q.privacy => Clean(q.rows))
                          /\ q.rows = loadPlaybackHistory(db, ui.privacy, ui.start, ui.filter)
  <2>1. ASSUME NEW reset \in BOOLEAN, reset = FALSE
        PROVE  /\ Asked(ui, db, reset, ui.start) \in SUBSET Ask /\ Asked(ui, db, reset, ui.start) # {}
               /\ AtMostOne(Asked(ui, db, reset, ui.start))
               /\ \A q \in Asked(ui, db, reset, ui.start) :
                    /\ q.reset = reset /\ q.privacy = ui.privacy /\ (~q.privacy => Clean(q.rows))
                    /\ q.rows = loadPlaybackHistory(db, ui.privacy, ui.start, ui.filter)
    BY <1>1, AskedIs
  <2>. QED  BY <2>1
<1>3. ui' = [ui EXCEPT !.asked = asked, !.owed = FALSE, !.loading = TRUE]
  BY <1>1 DEF loadMoreGlobalHistory, loadGlobalHistoryPage, Forgotten, UI
<1>. HIDE DEF asked
<1>4. ui' \in UI
  BY <1>1, <1>2, <1>3 DEF UI
<1>5. Asking(ui')
  BY <1>1, <1>2, <1>3 DEF UI, Asking
<1>6. Shows(ui', db, stale)
  <2>1. /\ ui'.asked = asked /\ ui'.loading = TRUE /\ ui'.view = "history" /\ ui'.rows = ui.rows
        /\ ui'.start = ui.start /\ ui'.privacy = ui.privacy /\ ui'.filter = ui.filter
    BY <1>1, <1>3 DEF UI
  <2>. QED  BY <1>1, <1>2, <2>1 DEF Shows
<1>7. Covers(ui')
  BY <1>1, <1>3 DEF UI, Covers
<1>. QED  BY <1>1, <1>4, <1>5, <1>6, <1>7 DEF HistoryKept, Good

LEMMA LinksAnsweredKeeps == ASSUME HistoryKept, LinksAnswered PROVE HistoryKept'
<1>1. PICK q \in ui.linkAsked, ok \in BOOLEAN :
        ui' = [ui EXCEPT !.linkAsked = {}, !.linkRows = IF q.privacy # ui.privacy \/ ~ok THEN @ ELSE q.rows]
  BY DEF LinksAnswered
<1>2. /\ ui \in UI /\ Asking(ui) /\ Shows(ui, db, stale) /\ Covers(ui)
      /\ db' = db /\ rare' = rare /\ stale' = stale
  BY DEF HistoryKept, Good, LinksAnswered
<1>3. q.rows \in Seq(Record)
  BY <1>1, <1>2 DEF UI, LinkAsk
<1>4. PICK rows \in Seq(Record) : ui' = [ui EXCEPT !.linkAsked = {}, !.linkRows = rows]
  BY <1>1, <1>2, <1>3 DEF UI
<1>5. ui' \in UI
  BY <1>2, <1>4 DEF UI
<1>6. Asking(ui')
  BY <1>2, <1>4 DEF UI, Asking, AtMostOne
<1>7. Shows(ui', db, stale)
  BY <1>2, <1>4 DEF UI, Shows
<1>8. Covers(ui')
  BY <1>2, <1>4 DEF UI, Covers
<1>. QED  BY <1>2, <1>5, <1>6, <1>7, <1>8 DEF HistoryKept, Good

LEMMA openLinkPlaybackKeeps == ASSUME HistoryKept, openLinkPlayback PROVE HistoryKept'
<1> DEFINE u == [ui EXCEPT !.playing = None]
           v == setCurrentView(u, "link")
<1>1. /\ ui \in UI /\ Asking(ui) /\ ui.view = "services" /\ ui.dialog = FALSE /\ Sound(db) /\ Matched(db)
      /\ db' = db /\ rare' = rare /\ stale' = stale
  BY DEF HistoryKept, Good, Covers, UI, openLinkPlayback
<1>2. u \in UI /\ u.view = "services"
  BY <1>1 DEF UI
<1>3. v = [ui EXCEPT !.view = "link", !.playing = None]
  BY <1>1, <1>2 DEF setCurrentView, UI
<1>4. v \in UI
  BY <1>1, <1>3 DEF UI
<1>5. ui' = refreshLinkPlaybackHistory(v, db)
  BY DEF openLinkPlayback
<1>. HIDE DEF u, v
<1>6. PICK asked \in SUBSET LinkAsk : AtMostOne(asked) /\ ui' = [v EXCEPT !.linkAsked = asked]
  BY <1>1, <1>4, <1>5, RefreshLinksIs
<1>7. ui' = [ui EXCEPT !.view = "link", !.playing = None, !.linkAsked = asked]
  BY <1>1, <1>3, <1>6 DEF UI
<1>8. ui' \in UI
  BY <1>1, <1>7 DEF UI
<1>9. Asking(ui')
  BY <1>1, <1>6, <1>7 DEF UI, Asking
<1>10. Shows(ui', db', stale') /\ Covers(ui')
  BY <1>1, <1>7 DEF UI, Shows, Covers
<1>. QED  BY <1>1, <1>8, <1>9, <1>10 DEF HistoryKept, Good

LEMMA deleteLinkPlaybackHistoryKeeps == ASSUME HistoryKept, deleteLinkPlaybackHistory PROVE HistoryKept'
<1> DEFINE u == refreshLinkPlaybackHistory(ui, db')
<1>1. ui \in UI /\ Asking(ui) /\ ui.view = "link" /\ ui.dialog = FALSE /\ rare' = rare /\ rare \in 0 .. MaxRare
  BY DEF HistoryKept, Good, Covers, UI, deleteLinkPlaybackHistory
<1>2. Sound(db') /\ Matched(db')
  BY DeleteKeeps DEF HistoryKept, deleteLinkPlaybackHistory
<1>3. ui' = refreshGlobalHistory(u, db')
  BY DEF deleteLinkPlaybackHistory
<1>4. PICK asked \in SUBSET LinkAsk : AtMostOne(asked) /\ u = [ui EXCEPT !.linkAsked = asked]
  BY <1>1, <1>2, RefreshLinksIs
<1>. HIDE DEF u
<1>5. /\ u \in UI /\ u.linkAsked = asked /\ u.view = "link"
      /\ Covers([u EXCEPT !.owed = FALSE])
  BY <1>1, <1>4 DEF UI, Covers
<1>. QED  BY <1>1, <1>2, <1>3, <1>4, <1>5, RefreshStep

LEMMA PlayKeeps == ASSUME HistoryKept, Play PROVE HistoryKept'
<1>1. PICK title \in Title :
        /\ \/ OnPage
           \/ ui.view = "link"
           \/ ui.view = "services"
        /\ ui' = setCurrentView([ui EXCEPT !.playing = title, !.noted = FALSE, !.hidden = title \in Media /\ db.hidden], "player")
  BY DEF Play
<1> DEFINE hidden == title \in Media /\ db.hidden
           u == [ui EXCEPT !.playing = title, !.noted = FALSE, !.hidden = hidden]
<1>2. /\ ui \in UI /\ Asking(ui) /\ ui.dialog = FALSE /\ ui.owed = FALSE /\ Sound(db) /\ Matched(db)
      /\ db' = db /\ rare' = rare /\ stale' = stale /\ rare \in 0 .. MaxRare
  BY <1>1 DEF HistoryKept, Good, Asking, Covers, UI, Play, OnPage
<1>3. hidden \in BOOLEAN
  OBVIOUS
<1>4. title # None
  BY HistoryAssumption DEF HistoryAssumption
<1>5. ui' = setCurrentView(u, "player")
  BY <1>1
<1>. HIDE DEF hidden
<1>6. u \in UI
  BY <1>2, <1>3 DEF UI
<1>7. setCurrentView(u, "player") = [u EXCEPT !.view = "player"]
  BY <1>6 DEF setCurrentView, UI
<1>8. ui' = [ui EXCEPT !.view = "player", !.playing = title, !.noted = FALSE, !.hidden = hidden]
  BY <1>2, <1>5, <1>7 DEF UI
<1>9. ui' \in UI
  BY <1>2, <1>3, <1>8 DEF UI
<1>10. Asking(ui')
  BY <1>2, <1>4, <1>8 DEF UI, Asking
<1>11. Shows(ui', db', stale') /\ Covers(ui')
  BY <1>2, <1>8 DEF UI, Shows, Covers
<1>. QED  BY <1>2, <1>9, <1>10, <1>11 DEF HistoryKept, Good

LEMMA closePlayerToDetailsKeeps == ASSUME HistoryKept, closePlayerToDetails PROVE HistoryKept'
<1>1. /\ ui \in UI /\ Asking(ui) /\ ui.view = "player" /\ ui.dialog = FALSE /\ ui.owed = FALSE /\ Sound(db) /\ Matched(db)
      /\ db' = db /\ rare' = rare /\ stale' = stale /\ rare \in 0 .. MaxRare
  BY DEF HistoryKept, Good, Asking, Covers, UI, closePlayerToDetails
<1>2. PICK view \in {"link", "services"} : ui' = [setCurrentView(ui, view) EXCEPT !.playing = None]
  BY DEF closePlayerToDetails
<1>3. ui' = [ui EXCEPT !.view = view, !.playing = None]
  BY <1>1, <1>2 DEF setCurrentView, UI
<1>4. ui' \in UI
  BY <1>1, <1>3 DEF UI
<1>5. Asking(ui')
  BY <1>1, <1>3 DEF UI, Asking
<1>6. Shows(ui', db', stale') /\ Covers(ui')
  BY <1>1, <1>3 DEF UI, Shows, Covers
<1>. QED  BY <1>1, <1>4, <1>5, <1>6 DEF HistoryKept, Good

LEMMA backToServicesKeeps == ASSUME HistoryKept, backToServices PROVE HistoryKept'
<1>1. /\ ui \in UI /\ Asking(ui) /\ ui.dialog = FALSE /\ Sound(db) /\ Matched(db)
      /\ db' = db /\ rare' = rare /\ stale' = stale /\ rare \in 0 .. MaxRare
  BY DEF HistoryKept, Good, UI, backToServices
<1> DEFINE leaves == ui.view = "history"
           forgets == ui.view = "link"
           linkAsked == IF forgets THEN {} ELSE ui.linkAsked
           asked == IF leaves THEN {} ELSE ui.asked
           owed == IF leaves THEN FALSE ELSE ui.owed
           loading == IF leaves THEN FALSE ELSE ui.loading
<1>2. setCurrentView(ui, "services") =
        [ui EXCEPT !.view = "services", !.linkAsked = linkAsked, !.asked = asked, !.owed = owed, !.loading = loading]
  BY <1>1, ViewIs DEF View
<1>3. owed = FALSE /\ loading = (asked # {}) /\ asked \in {ui.asked, {}} /\ linkAsked \in {ui.linkAsked, {}}
  BY <1>1 DEF Asking, UI
<1>4. ui' = [setCurrentView(ui, "services") EXCEPT !.playing = None]
  BY DEF backToServices
<1>. HIDE DEF leaves, forgets, linkAsked, asked, owed, loading
<1>5. ui' = [ui EXCEPT !.view = "services", !.asked = asked, !.owed = FALSE, !.loading = loading,
                       !.linkAsked = linkAsked, !.playing = None]
  BY <1>1, <1>2, <1>3, <1>4 DEF UI
<1>6. ui' \in UI
  <2>1. asked \in SUBSET Ask /\ linkAsked \in SUBSET LinkAsk /\ loading \in BOOLEAN
    BY <1>1, <1>3 DEF UI
  <2>. QED  BY <1>1, <1>5, <2>1 DEF UI
<1>7. Asking(ui')
  <2>1. AtMostOne(asked) /\ AtMostOne(linkAsked) /\ \A q \in asked : ~q.privacy => Clean(q.rows)
    BY <1>1, <1>3 DEF Asking, AtMostOne
  <2>2. /\ ui'.asked = asked /\ ui'.loading = loading /\ ui'.linkAsked = linkAsked /\ ui'.owed = FALSE
        /\ ui'.view = "services"
    BY <1>1, <1>5 DEF UI
  <2>. QED  BY <1>3, <2>1, <2>2 DEF Asking
<1>8. Shows(ui', db', stale') /\ Covers(ui')
  BY <1>1, <1>5 DEF UI, Shows, Covers
<1>. QED  BY <1>1, <1>6, <1>7, <1>8 DEF HistoryKept, Good

\* Outside the history page whatever is written may change what it would show.
LEMMA NotedKeeps ==
    ASSUME HistoryKept, ui.view = "player", rare' = rare, Sound(db'), Matched(db'),
           NEW asked \in SUBSET LinkAsk, AtMostOne(asked), ui' = [ui EXCEPT !.noted = TRUE, !.linkAsked = asked]
    PROVE  HistoryKept'
<1>1. ui \in UI /\ Asking(ui) /\ ui.dialog = FALSE /\ rare \in 0 .. MaxRare
  BY DEF HistoryKept, Good, Covers, UI
<1>2. ui' \in UI
  BY <1>1 DEF UI
<1>3. Asking(ui')
  BY <1>1 DEF UI, Asking
<1>4. Shows(ui', db', stale') /\ Covers(ui')
  BY <1>1 DEF UI, Shows, Covers
<1>. QED  BY <1>1, <1>2, <1>3, <1>4 DEF HistoryKept, Good

LEMMA recordGlobalPlaybackStartedKeeps == ASSUME HistoryKept, recordGlobalPlaybackStarted PROVE HistoryKept'
<1> DEFINE record == [id |-> db.next, title |-> ui.playing, day |-> Today, private |-> ui.privacy \/ ui.hidden]
           saved == savePlaybackHistory(db, record)
           both == saveLinkPlaybackHistory(saved, record)
           torn == [saved EXCEPT !.torn = TRUE]
           noted == [ui EXCEPT !.noted = TRUE]
<1>1. /\ ui \in UI /\ Asking(ui) /\ ui.view = "player" /\ Sound(db) /\ Matched(db)
      /\ db.next <= Cardinality(First) + MaxStarts /\ rare' = rare
  BY DEF HistoryKept, Good, recordGlobalPlaybackStarted
<1>2. record \in Record /\ record.id = db.next /\ record.title = ui.playing
  <2>1. ui.playing \in Title /\ (ui.privacy \/ ui.hidden) \in BOOLEAN
    BY <1>1 DEF UI, Asking
  <2>2. db.next \in 1 .. Cardinality(First) + MaxStarts
    <3>1. db.next \in Nat \ {0}
      BY <1>1 DEF Sound, Tables
    <3>2. Cardinality(First) \in Nat /\ MaxStarts \in Nat
      BY FS_CardinalityType, HistoryAssumption DEF HistoryAssumption
    <3>. QED  BY <1>1, <3>1, <3>2
  <2>3. Today \in Day
    BY DEF Today, Day
  <2>. QED  BY <2>1, <2>2, <2>3 DEF Record
<1>3. /\ \/ ui.playing \in Media /\ db' = saved /\ ui' = noted
         \/ ui.playing \notin Media /\ db' = both /\ ui' = refreshLinkPlaybackHistory(noted, db')
         \/ ui.playing \notin Media /\ db' = torn /\ ui' = noted
  BY DEF recordGlobalPlaybackStarted
<1>. HIDE DEF record
<1>4. /\ Sound(saved) /\ Sound(torn) /\ Matched(torn) /\ Sound(both)
      /\ ui.playing \notin Links => Matched(saved)
      /\ ui.playing \in Links => Matched(both)
  BY <1>1, <1>2, SaveKeeps
<1>5. ui.playing \in Media <=> ui.playing \notin Links
  BY <1>1, HistoryAssumption DEF UI, Asking, Title, HistoryAssumption
<1>. HIDE DEF saved, both, torn
<1>6. Sound(db') /\ Matched(db')
  BY <1>3, <1>4, <1>5
<1>7. noted = [ui EXCEPT !.noted = TRUE, !.linkAsked = ui.linkAsked] /\ noted \in UI
      /\ ui.linkAsked \in SUBSET LinkAsk /\ AtMostOne(ui.linkAsked)
  BY <1>1 DEF UI, Asking
<1>8. CASE ui' = noted
  BY <1>1, <1>6, <1>7, <1>8, NotedKeeps
<1>9. CASE ui' = refreshLinkPlaybackHistory(noted, db')
  <2>. HIDE DEF noted
  <2>1. PICK asked \in SUBSET LinkAsk : AtMostOne(asked) /\ ui' = [noted EXCEPT !.linkAsked = asked]
    BY <1>6, <1>7, <1>9, RefreshLinksIs
  <2>2. ui' = [ui EXCEPT !.noted = TRUE, !.linkAsked = asked]
    BY <1>1, <2>1 DEF UI, noted
  <2>. QED  BY <1>1, <1>6, <2>1, <2>2, NotedKeeps
<1>. QED  BY <1>3, <1>8, <1>9

LEMMA deleteGlobalHistoryKeeps == ASSUME HistoryKept, deleteGlobalHistory PROVE HistoryKept'
<1>1. ui \in UI /\ Asking(ui) /\ ui.dialog = FALSE /\ rare' = rare /\ rare \in 0 .. MaxRare
  BY DEF HistoryKept, Good, Covers, UI, deleteGlobalHistory, OnPage
<1>2. Sound(db') /\ Matched(db')
  BY DeleteKeeps DEF HistoryKept, deleteGlobalHistory
<1>3. PICK u \in {ui, refreshLinkPlaybackHistory(ui, db')} : ui' = refreshGlobalHistory(u, db')
  <2>1. PICK i \in DOMAIN ui.rows :
          ui' = refreshGlobalHistory(IF ui.rows[i].title \in Links THEN refreshLinkPlaybackHistory(ui, db') ELSE ui, db')
    BY DEF deleteGlobalHistory
  <2>2. CASE ui.rows[i].title \in Links
    BY <2>1, <2>2
  <2>3. CASE ui.rows[i].title \notin Links
    BY <2>1, <2>3
  <2>. QED  BY <2>2, <2>3
<1>4. PICK asked \in SUBSET LinkAsk : AtMostOne(asked) /\ u = [ui EXCEPT !.linkAsked = asked]
  <2>1. ui = [ui EXCEPT !.linkAsked = ui.linkAsked] /\ ui.linkAsked \in SUBSET LinkAsk /\ AtMostOne(ui.linkAsked)
    BY <1>1 DEF UI, Asking
  <2>. QED  BY <1>1, <1>2, <1>3, <2>1, RefreshLinksIs
<1>5. /\ u \in UI /\ u.linkAsked = asked /\ (u.view = "player" => u.playing # None)
      /\ Covers([u EXCEPT !.owed = FALSE])
  BY <1>1, <1>4 DEF UI, Covers, Asking
<1>. QED  BY <1>1, <1>2, <1>3, <1>4, <1>5, RefreshStep

-----------------------------------------------------------------------------
(* The dialog *)

Dialog(u, days, day, rows) == [u EXCEPT !.days = days, !.day = day, !.dayRows = rows]

LEMMA DatesAre ==
    ASSUME NEW u \in UI, NEW d, Sound(d)
    PROVE  \E days \in SUBSET Day, day \in {0} \union Day, rows \in Seq(Item) :
             /\ loadGlobalHistoryManagementDates(u, d) = Dialog(u, days, day, rows)
             /\ ~u.privacy => Clean(rows)
<1> DEFINE days == loadPlaybackHistoryDates(d, u.privacy)
           day == IF u.day \in days THEN u.day ELSE Max(days)
           rows == loadPlaybackHistoryForDate(d, u.privacy, day)
<1>1. days \in SUBSET Day
  <2>1. d.history \subseteq Record
    BY DEF Sound, Tables
  <2>2. \A r \in Fresh(d, Visible(d, u.privacy)) : r \in Record
    BY <2>1 DEF Fresh, Visible
  <2>. QED  BY <2>2 DEF loadPlaybackHistoryDates, Record
<1>2. CASE days = {}
  <2>1. loadGlobalHistoryManagementDates(u, d) = Dialog(u, {}, 0, <<>>)
    BY <1>2 DEF loadGlobalHistoryManagementDates, Dialog, UI
  <2>2. Clean(<<>>) /\ <<>> \in Seq(Item)
    BY DEF Clean
  <2>. QED  BY <2>1, <2>2
<1>3. CASE days # {}
  <2>1. loadGlobalHistoryManagementDates(u, d) = Dialog(u, days, day, rows)
    <3>1. loadGlobalHistoryManagementDates(u, d) = loadGlobalHistoryManagementDate([u EXCEPT !.days = days], d, day)
      BY <1>3 DEF loadGlobalHistoryManagementDates
    <3>. HIDE DEF days, day
    <3>. QED  BY <3>1 DEF loadGlobalHistoryManagementDate, Dialog, UI
  <2>2. day \in Day
    <3>. HIDE DEF days
    <3>1. \E e \in days : \A f \in days : e >= f
      <4>1. \A f \in days : f = 1 \/ f = 2
        BY <1>1 DEF Day
      <4>2. CASE 2 \in days
        BY <4>1, <4>2
      <4>3. CASE 2 \notin days
        BY <1>3, <4>1, <4>3
      <4>. QED  BY <4>2, <4>3
    <3>2. Max(days) \in days
      BY <3>1 DEF Max
    <3>. QED  BY <1>1, <3>2
  <2>3. u.privacy \in BOOLEAN
    BY DEF UI
  <2>4. rows \in Seq(Item) /\ (~u.privacy => Clean(rows))
    <3>. HIDE DEF day
    <3>. QED  BY <2>3, DateItems
  <2>. HIDE DEF days, day, rows
  <2>. QED  BY <1>1, <2>1, <2>2, <2>4
<1>. QED  BY <1>2, <1>3

LEMMA openGlobalHistoryManagementKeeps == ASSUME HistoryKept, openGlobalHistoryManagement PROVE HistoryKept'
<1>1. /\ ui \in UI /\ Asking(ui) /\ Shows(ui, db, stale) /\ Sound(db) /\ ui.view = "history" /\ ~ui.owed
      /\ db' = db /\ rare' = rare /\ stale' = stale
  BY DEF HistoryKept, Good, openGlobalHistoryManagement, OnPage
<1>2. PICK last \in {0} \union Day : ui' = [loadGlobalHistoryManagementDates([ui EXCEPT !.day = last], db) EXCEPT !.dialog = TRUE]
  BY DEF openGlobalHistoryManagement
<1> DEFINE u == [ui EXCEPT !.day = last]
<1>3. u \in UI /\ u.privacy = ui.privacy
  BY <1>1 DEF UI
<1>. HIDE DEF u
<1>4. PICK days \in SUBSET Day, day \in {0} \union Day, rows \in Seq(Item) :
        /\ loadGlobalHistoryManagementDates(u, db) = Dialog(u, days, day, rows)
        /\ ~u.privacy => Clean(rows)
  BY <1>1, <1>3, DatesAre
<1>5. ui' = [ui EXCEPT !.days = days, !.day = day, !.dayRows = rows, !.dialog = TRUE]
  BY <1>1, <1>2, <1>4 DEF u, Dialog, UI
<1>6. ui' \in UI
  BY <1>1, <1>5 DEF UI
<1>7. Asking(ui')
  BY <1>1, <1>5 DEF UI, Asking
<1>8. Shows(ui', db', stale')
  BY <1>1, <1>5 DEF UI, Shows
<1>9. Covers(ui')
  BY <1>1, <1>3, <1>4, <1>5 DEF UI, Covers
<1>. QED  BY <1>1, <1>6, <1>7, <1>8, <1>9 DEF HistoryKept, Good

LEMMA selectGlobalHistoryManagementDateKeeps == ASSUME HistoryKept, selectGlobalHistoryManagementDate PROVE HistoryKept'
<1>1. /\ ui \in UI /\ Asking(ui) /\ Shows(ui, db, stale) /\ Covers(ui) /\ Sound(db) /\ ui.privacy \in BOOLEAN
      /\ db' = db /\ rare' = rare /\ stale' = stale
  BY DEF HistoryKept, Good, selectGlobalHistoryManagementDate, UI
<1>2. PICK day \in ui.days : ui' = loadGlobalHistoryManagementDate(ui, db, day)
  BY DEF selectGlobalHistoryManagementDate
<1> DEFINE rows == loadPlaybackHistoryForDate(db, ui.privacy, day)
<1>3. day \in Day /\ ui' = [ui EXCEPT !.day = day, !.dayRows = rows]
  BY <1>1, <1>2 DEF loadGlobalHistoryManagementDate, UI
<1>4. rows \in Seq(Item) /\ (~ui.privacy => Clean(rows))
  BY <1>1, DateItems
<1>. HIDE DEF rows
<1>5. ui' \in UI
  BY <1>1, <1>3, <1>4 DEF UI
<1>6. Asking(ui')
  BY <1>1, <1>3 DEF UI, Asking
<1>7. Shows(ui', db', stale')
  BY <1>1, <1>3 DEF UI, Shows
<1>8. Covers(ui')
  BY <1>1, <1>3, <1>4 DEF UI, Covers
<1>. QED  BY <1>1, <1>5, <1>6, <1>7, <1>8 DEF HistoryKept, Good

LEMMA deleteGlobalHistoryManagementDateKeeps == ASSUME HistoryKept, deleteGlobalHistoryManagementDate PROVE HistoryKept'
<1>1. /\ ui \in UI /\ Asking(ui) /\ Covers(ui) /\ ui.dialog /\ rare' = rare /\ rare \in 0 .. MaxRare
  BY DEF HistoryKept, Good, deleteGlobalHistoryManagementDate
<1>2. Sound(db') /\ Matched(db')
  BY DeleteForDateKeeps DEF HistoryKept, deleteGlobalHistoryManagementDate
<1>3. PICK days \in SUBSET Day, day \in {0} \union Day, rows \in Seq(Item) :
        /\ loadGlobalHistoryManagementDates(ui, db') = Dialog(ui, days, day, rows)
        /\ ~ui.privacy => Clean(rows)
  BY <1>1, <1>2, DatesAre
<1> DEFINE u == Dialog(ui, days, day, rows)
<1>4. ui' = refreshGlobalHistory(u, db')
  BY <1>3 DEF deleteGlobalHistoryManagementDate
<1>5. u \in UI /\ u.linkAsked = ui.linkAsked /\ u.view = "history"
  BY <1>1 DEF UI, Dialog, Covers
<1>6. Covers([u EXCEPT !.owed = FALSE])
  BY <1>1, <1>3 DEF UI, Dialog, Covers
<1>. HIDE DEF u
<1>. QED  BY <1>1, <1>2, <1>4, <1>5, <1>6, RefreshStep DEF Asking

LEMMA CloseDialogKeeps == ASSUME HistoryKept, CloseDialog PROVE HistoryKept'
<1>1. /\ ui \in UI /\ Asking(ui) /\ Shows(ui, db, stale) /\ <<>> \in Seq(Item)
      /\ db' = db /\ rare' = rare /\ stale' = stale
      /\ ui' = [ui EXCEPT !.dialog = FALSE, !.day = 0, !.days = {}, !.dayRows = <<>>]
  BY DEF HistoryKept, Good, CloseDialog
<1>2. ui' \in UI
  BY <1>1 DEF UI
<1>3. Asking(ui')
  BY <1>1 DEF UI, Asking
<1>4. Shows(ui', db', stale')
  BY <1>1 DEF UI, Shows
<1>5. Covers(ui')
  BY <1>1 DEF UI, Covers
<1>. QED  BY <1>1, <1>2, <1>3, <1>4, <1>5 DEF HistoryKept, Good

-----------------------------------------------------------------------------
(* Privacy mode, the service and the settings *)

\* What is known of the service, and the retention period, are beside the rows.
LEMMA SettingKeeps ==
    ASSUME NEW d, Sound(d), Matched(d), NEW e \in Tables,
           e.history = d.history, e.links = d.links, e.next = d.next, e.torn = d.torn
    PROVE  Sound(e) /\ Matched(e)
  BY DEF Sound, Matched, Rows

LEMMA setHistoryRetentionDaysKeeps ==
    ASSUME HistoryKept, NEW days \in Day, setHistoryRetentionDays(days)
    PROVE  HistoryKept'
<1> DEFINE d == [db EXCEPT !.retention = days]
<1>1. /\ db' \in {d, pruneOldHistory(d)} /\ ui' = refreshGlobalHistory(ui, db') /\ Rarely
      /\ ui \in UI /\ ui.view = "services"
  BY DEF setHistoryRetentionDays, HistoryKept, Good
<1>2. Sound(d) /\ Matched(d)
  <2>1. d \in Tables /\ d.history = db.history /\ d.links = db.links /\ d.next = db.next /\ d.torn = db.torn
    BY DEF HistoryKept, Sound, Tables
  <2>. HIDE DEF d
  <2>. QED  BY <2>1, SettingKeeps DEF HistoryKept
<1>. HIDE DEF d
<1>3. Sound(db') /\ Matched(db')
  BY <1>1, <1>2, PruneKeeps
<1>4. rare' \in 0 .. MaxRare
  BY <1>1, ElsewhereIs, RareBound
<1>5. Covers([ui EXCEPT !.owed = FALSE])
  BY <1>1, ElsewhereIs DEF UI, Covers
<1>. QED  BY <1>1, <1>3, <1>4, <1>5, ElsewhereIs, RefreshStep

LEMMA TogglePrivacyModeKeeps == ASSUME HistoryKept, TogglePrivacyMode PROVE HistoryKept'
<1>1. /\ ui \in UI /\ Asking(ui) /\ ui.view = "services" /\ ui.dialog = FALSE
      /\ db' = db /\ rare' = rare /\ rare \in 0 .. MaxRare /\ Sound(db) /\ Matched(db)
  BY DEF HistoryKept, Good, Covers, UI, TogglePrivacyMode
<1>2. CASE ui.privacy
  <2>1. ui' = [ui EXCEPT !.privacy = FALSE]
    BY <1>2 DEF TogglePrivacyMode
  <2>2. ui' \in UI
    BY <1>1, <2>1 DEF UI
  <2>3. Asking(ui')
    BY <1>1, <2>1 DEF UI, Asking
  <2>4. Shows(ui', db', stale') /\ Covers(ui')
    BY <1>1, <2>1 DEF UI, Shows, Covers
  <2>. QED  BY <1>1, <2>2, <2>3, <2>4 DEF HistoryKept, Good
<1>3. CASE ~ui.privacy
  <2> DEFINE u == [ui EXCEPT !.privacy = TRUE]
  <2>1. ui' = refreshGlobalHistory(u, db')
    BY <1>1, <1>3 DEF TogglePrivacyMode
  <2>2. u \in UI /\ u.linkAsked = ui.linkAsked /\ u.view = "services"
    BY <1>1 DEF UI
  <2>3. Covers([u EXCEPT !.owed = FALSE])
    BY <1>1 DEF UI, Covers
  <2>. HIDE DEF u
  <2>. QED  BY <1>1, <2>1, <2>2, <2>3, RefreshStep DEF Asking
<1>. QED  BY <1>2, <1>3

LEMMA SetPrivacyCardPrivateKeeps == ASSUME HistoryKept, SetPrivacyCardPrivate PROVE HistoryKept'
<1>1. /\ db' = [db EXCEPT !.hidden = ~@] /\ ui' = refreshGlobalHistory(ui, db') /\ Rarely
      /\ ui \in UI /\ ui.view = "services"
  BY DEF SetPrivacyCardPrivate, HistoryKept, Good
<1>2. Sound(db') /\ Matched(db')
  <2>1. db' \in Tables /\ db'.history = db.history /\ db'.links = db.links /\ db'.next = db.next /\ db'.torn = db.torn
    BY <1>1 DEF HistoryKept, Sound, Tables
  <2>. QED  BY <2>1, SettingKeeps DEF HistoryKept
<1>3. rare' \in 0 .. MaxRare
  BY <1>1, ElsewhereIs, RareBound
<1>4. Covers([ui EXCEPT !.owed = FALSE])
  BY <1>1, ElsewhereIs DEF UI, Covers
<1>. QED  BY <1>1, <1>2, <1>3, <1>4, ElsewhereIs, RefreshStep

LEMMA DeleteServiceCardKeeps == ASSUME HistoryKept, DeleteServiceCard PROVE HistoryKept'
<1>1. /\ \/ db' = [db EXCEPT !.gone = TRUE]
         \/ db' = [db EXCEPT !.gone = TRUE, !.hidden = FALSE, !.history = {r \in @ : r.title \in Links}]
      /\ ui' = refreshGlobalHistory(ui, db') /\ Rarely
      /\ ui \in UI /\ ui.view = "services"
  BY DEF DeleteServiceCard, HistoryKept, Good
<1>2. CASE db' = [db EXCEPT !.gone = TRUE]
  <2>1. db' \in Tables /\ db'.history = db.history /\ db'.links = db.links /\ db'.next = db.next /\ db'.torn = db.torn
    BY <1>2 DEF HistoryKept, Sound, Tables
  <2>. QED  BY <1>1, <2>1, SettingKeeps, ElsewhereIs, RareBound, RefreshStep DEF HistoryKept, UI, Covers
<1>3. CASE db' = [db EXCEPT !.gone = TRUE, !.hidden = FALSE, !.history = {r \in @ : r.title \in Links}]
  <2>1. /\ db' \in Tables /\ db'.history = {r \in db.history : r.title \in Links} /\ db'.links = db.links
        /\ db'.next = db.next /\ db'.torn = db.torn
    BY <1>3 DEF HistoryKept, Sound, Tables
  <2>2. Sound(db')
    BY <2>1, RowsFewer DEF HistoryKept, Rows
  <2>3. Matched(db')
    BY <2>1 DEF HistoryKept, Matched
  <2>4. rare' \in 0 .. MaxRare
    BY <1>1, ElsewhereIs, RareBound
  <2>5. Covers([ui EXCEPT !.owed = FALSE])
    BY <1>1, ElsewhereIs DEF UI, Covers
  <2>. QED  BY <1>1, <2>2, <2>3, <2>4, <2>5, ElsewhereIs, RefreshStep
<1>. QED  BY <1>1, <1>2, <1>3

LEMMA ConsoleKeeps == ASSUME HistoryKept, Console PROVE HistoryKept'
<1>1. /\ db' \in {[db EXCEPT !.hidden = ~@], [db EXCEPT !.gone = ~@]} /\ stale' = TRUE /\ ui' = ui /\ Rarely
      /\ ui \in UI /\ Asking(ui) /\ Shows(ui, db, stale) /\ Covers(ui)
  BY DEF HistoryKept, Good, Console
<1>2. db' \in Tables /\ db'.history = db.history /\ db'.links = db.links /\ db'.next = db.next /\ db'.torn = db.torn
  BY <1>1 DEF HistoryKept, Sound, Tables
<1>3. Sound(db') /\ Matched(db')
  BY <1>2, SettingKeeps DEF HistoryKept
<1>4. rare' \in 0 .. MaxRare
  BY <1>1, ElsewhereIs, RareBound
<1>5. Shows(ui', db', stale')
  BY <1>1 DEF Shows
<1>. QED  BY <1>1, <1>3, <1>4, <1>5 DEF HistoryKept, Good

-----------------------------------------------------------------------------
(* The start *)

LEMMA StartedGood ==
    ASSUME NEW d, Sound(d), NEW old
    PROVE  Good(refreshGlobalHistory(refreshLinkPlaybackHistory(Off, d), d), d, old)
<1>1. Off \in UI
  <2>1. <<>> \in Seq(Item) /\ <<>> \in Seq(Record) /\ {} \in SUBSET Ask /\ {} \in SUBSET LinkAsk
    OBVIOUS
  <2>. QED  BY <2>1 DEF Off, UI
<1> DEFINE u == refreshLinkPlaybackHistory(Off, d)
<1>2. PICK asked \in SUBSET LinkAsk : AtMostOne(asked) /\ u = [Off EXCEPT !.linkAsked = asked]
  BY <1>1, RefreshLinksIs
<1>3. Off.view = "services" /\ Off.dialog = FALSE
  BY DEF Off
<1>. HIDE DEF u
<1>4. u \in UI /\ u.linkAsked = asked /\ u.view = "services" /\ u.dialog = FALSE
  BY <1>1, <1>2, <1>3 DEF UI
<1>5. Covers([u EXCEPT !.owed = FALSE])
  BY <1>4 DEF UI, Covers
<1>6. Good(refreshGlobalHistory(u, d), d, old)
  BY <1>2, <1>4, <1>5, RefreshKeeps
<1>. QED  BY <1>6 DEF u

LEMMA StartedClosed ==
    ASSUME NEW d, Sound(d)
    PROVE  refreshGlobalHistory(refreshLinkPlaybackHistory(Off, d), d).dialog = FALSE
<1> DEFINE u == refreshLinkPlaybackHistory(Off, d)
<1>1. Off \in UI /\ Off.dialog = FALSE
  <2>1. <<>> \in Seq(Item) /\ <<>> \in Seq(Record) /\ {} \in SUBSET Ask /\ {} \in SUBSET LinkAsk
    OBVIOUS
  <2>. QED  BY <2>1 DEF Off, UI
<1>2. PICK asked \in SUBSET LinkAsk : u = [Off EXCEPT !.linkAsked = asked]
  BY <1>1, RefreshLinksIs
<1>. HIDE DEF u
<1>3. u \in UI /\ u.dialog = FALSE
  BY <1>1, <1>2 DEF UI
<1>4. refreshGlobalHistory(u, d).dialog = FALSE
  <2>1. refreshGlobalHistory(u, d) = Reread(u, d)
    BY <1>3, PageRefreshIs
  <2>2. Reread(u, d).dialog = u.dialog
    BY <1>3 DEF Reread, UI
  <2>. QED  BY <1>3, <2>1, <2>2
<1>. QED  BY <1>4 DEF u

LEMMA RestartKeeps == ASSUME HistoryKept, Restart PROVE HistoryKept'
<1>1. Sound(db') /\ Matched(db')
  BY MigrateKeeps, PruneKeeps DEF HistoryKept, Restart
<1>2. rare' \in 0 .. MaxRare
  BY ElsewhereIs, RareBound DEF Restart
<1>3. Good(ui', db', stale')
  BY <1>1, StartedGood DEF Restart
<1>. QED  BY <1>1, <1>2, <1>3 DEF HistoryKept

LEMMA InitKeepsHistory == ASSUME Init PROVE HistoryKept
<1>1. /\ db = [history |-> First, links |-> {r \in First : r.title \in Links}, next |-> Cardinality(First) + 1,
               retention |-> Today, hidden |-> FALSE, gone |-> FALSE, torn |-> FALSE]
      /\ ui = refreshGlobalHistory(refreshLinkPlaybackHistory(Off, db), db)
      /\ rare = 0
  BY DEF Init
<1>2. /\ First \subseteq Record /\ IsFiniteSet(First) /\ Cardinality(First) \in Nat
      /\ \A r \in First : r.id <= Cardinality(First)
      /\ \A r, s \in First : r # s => r.id # s.id
  BY FS_CardinalityType, HistoryAssumption DEF HistoryAssumption
<1>3. db \in Tables
  BY <1>1, <1>2 DEF Tables, Today, Day
<1>4. db.history = First /\ Rows(db) = First /\ db.next = Cardinality(First) + 1
  BY <1>1 DEF Rows
<1>5. \A r \in First : r.id < Cardinality(First) + 1 /\ Cardinality(First) + 1 # 0
  BY <1>2, IdIsNumber
<1>6. Sound(db)
  BY <1>2, <1>3, <1>4, <1>5 DEF Sound, Distinct
<1>7. Matched(db)
  BY <1>1 DEF Matched
<1>8. Good(ui, db, stale)
  BY <1>1, <1>6, StartedGood
<1>9. rare \in 0 .. MaxRare
  BY <1>1, HistoryAssumption DEF HistoryAssumption
<1>. QED  BY <1>6, <1>7, <1>8, <1>9 DEF HistoryKept

LEMMA NextKeepsHistory == ASSUME HistoryKept, [Next]_vars PROVE HistoryKept'
<1>1. CASE Next
  BY <1>1, HistoryAnsweredKeeps, openGlobalHistoryKeeps, RefreshTimerKeeps, RefreshActionKeeps, loadMoreGlobalHistoryKeeps,
     setGlobalHistoryFilterKeeps, setHistoryRetentionDaysKeeps, LinksAnsweredKeeps, openLinkPlaybackKeeps,
     deleteLinkPlaybackHistoryKeeps, PlayKeeps, recordGlobalPlaybackStartedKeeps, closePlayerToDetailsKeeps,
     backToServicesKeeps, deleteGlobalHistoryKeeps, openGlobalHistoryManagementKeeps,
     selectGlobalHistoryManagementDateKeeps, deleteGlobalHistoryManagementDateKeeps, CloseDialogKeeps,
     TogglePrivacyModeKeeps, SetPrivacyCardPrivateKeeps, DeleteServiceCardKeeps, ConsoleKeeps, RestartKeeps
  DEF Next
<1>2. CASE UNCHANGED vars
  BY <1>2 DEF vars, HistoryKept
<1>. QED  BY <1>1, <1>2

LEMMA SpecInv == Spec => []HistoryKept
  BY InitKeepsHistory, NextKeepsHistory, PTL DEF Spec

-----------------------------------------------------------------------------
(* Theorems *)

(***************************************************************************)
(* The two tables hold the same records of links through every way to      *)
(* save, delete, outdate or migrate them, as long as no save was torn      *)
(* (SessionRepository.cpp:287-291, AppViewModel.cpp:5724-5757).            *)
(***************************************************************************)
THEOREM TablesMatch == Spec => []LinksMatch
<1>1. HistoryKept => LinksMatch
  BY DEF HistoryKept, Matched, LinksMatch
<1>. QED  BY <1>1, SpecInv, PTL

LEMMA InvType == HistoryKept => TypeOK
<1> SUFFICES ASSUME HistoryKept PROVE TypeOK
  OBVIOUS
<1>1. ui \in UI /\ Asking(ui) /\ db \in Tables /\ rare \in 0 .. MaxRare
  BY DEF HistoryKept, Good, Sound
<1>2. ASSUME NEW S, AtMostOne(S) PROVE Cardinality(S) < 2
  <2>1. CASE S = {}
    BY <2>1, FS_EmptySet
  <2>2. CASE S # {}
    <3>1. PICK q : S = {q}
      BY <1>2, <2>2 DEF AtMostOne
    <3>2. Cardinality({q}) = 1
      BY FS_Singleton
    <3>. QED  BY <3>1, <3>2
  <2>. QED  BY <2>1, <2>2
<1>3. Cardinality(ui.asked) < 2 /\ Cardinality(ui.linkAsked) < 2
  BY <1>1, <1>2 DEF Asking
<1>. QED  BY <1>1, <1>3 DEF UI, TypeOK

LEMMA InvHidesPrivate == HistoryKept => HistoryHidesPrivate
  BY DEF HistoryKept, Good, Shows, Covers, Clean, HistoryHidesPrivate, OnPage

LEMMA InvContinues == HistoryKept => PageContinues
<1> DEFINE all == Matching(db, ui.privacy, ui.filter)
<1> SUFFICES ASSUME HistoryKept, OnPage, ~ui.loading, ~stale
             PROVE  IsPrefix(ui.rows, all) /\ ui.start = Len(ui.rows) /\ (~ui.more /\ ~ui.failed => ui.rows = all)
  BY DEF PageContinues
<1>1. ui.privacy \in BOOLEAN /\ ui.start \in Nat /\ ui.rows \in Seq(Item) /\ Sound(db)
  BY DEF HistoryKept, Good, UI
<1>2. /\ ui.start <= Len(all) /\ ui.rows = SubSeq(all, 1, ui.start)
      /\ ~ui.more /\ ~ui.failed => ui.start = Len(all)
  BY DEF HistoryKept, Good, Shows, OnPage
<1>3. all \in Seq(Item) /\ Len(all) \in Nat
  BY <1>1, MatchingItems, LenProperties
<1>. HIDE DEF all
<1>4. \A i \in 1 .. ui.start : all[i] \in Item
  BY <1>1, <1>2, <1>3, LenProperties
<1>5. Len(ui.rows) = ui.start /\ \A i \in 1 .. ui.start : ui.rows[i] = all[i]
  <2>1. /\ Len(SubSeq(all, 1, ui.start)) = IF 1 <= ui.start THEN ui.start - 1 + 1 ELSE 0
        /\ \A i \in 1 .. ui.start - 1 + 1 : SubSeq(all, 1, ui.start)[i] = all[1 + i - 1]
    BY <1>1, <1>4, SubSeqProperties
  <2>. QED  BY <1>1, <1>2, <2>1
<1>6. ui.start = Len(all) => ui.rows = all
  BY <1>2, <1>3, SubSeqFull
<1>7. IsPrefix(ui.rows, all)
  BY <1>1, <1>2, <1>3, <1>5 DEF IsPrefix
<1>. QED  BY <1>2, <1>5, <1>6, <1>7

(***************************************************************************)
(* Whatever overtakes its requests, the history page hides what is         *)
(* private outside privacy mode, its pages fit together, and it is never   *)
(* stuck loading (AppViewModel.cpp:5324-5757).                             *)
(***************************************************************************)
THEOREM HistoryIsSound == Spec => []HistoryInv
<1>1. HistoryKept => LoadingHasOwner
  BY DEF HistoryKept, Good, Asking, LoadingHasOwner
<1>2. HistoryKept => HistoryInv
  BY <1>1, InvType, InvHidesPrivate, InvContinues DEF HistoryInv
<1>. QED  BY <1>2, SpecInv, PTL

\* Deleting a day outside privacy mode takes no private record from either table: a link's row goes
\* with the record of its id, and the record of a private link is private too.
THEOREM PrivateRecordsKept == Spec => OrdinaryKeepsPrivate
<1> DEFINE Kept == ui.dialog /\ ui'.dialog /\ ~ui.privacy =>
                     /\ \A r \in db.history : Private(db, r) => r \in db'.history
                     /\ \A r \in db.links : r.private => r \in db'.links
<1>1. ASSUME HistoryKept, [Next]_vars PROVE Kept
  <2> SUFFICES ASSUME ui.dialog, ui'.dialog, ~ui.privacy
               PROVE  /\ \A r \in db.history : Private(db, r) => r \in db'.history
                      /\ \A r \in db.links : r.private => r \in db'.links
    OBVIOUS
  <2>1. ui.view = "history" /\ ~ui.owed /\ Sound(db) /\ ui \in UI /\ Asking(ui)
    BY <1>1 DEF HistoryKept, Good, Covers
  <2>2. CASE db'.history = db.history /\ db'.links = db.links
    BY <2>2
  <2>3. CASE deleteGlobalHistoryManagementDate
    <3> DEFINE ids == {r.id : r \in {q \in Visible(db, ui.privacy) : q.day = ui.day}}
    <3>1. db' = [db EXCEPT !.history = {r \in @ : r.id \notin ids}, !.links = {r \in @ : r.id \notin ids}]
      BY <2>3 DEF deleteGlobalHistoryManagementDate, deletePlaybackHistoryForDate
    <3>2. ASSUME NEW r \in Rows(db), r.id \in ids PROVE ~Private(db, r)
      <4>1. PICK q \in Visible(db, ui.privacy) : q.id = r.id
        BY <3>2
      <4>2. q \in Rows(db) /\ ~Private(db, q)
        BY <4>1 DEF Visible, Rows
      <4>3. q = r
        BY <2>1, <4>1, <4>2 DEF Sound, Distinct
      <4>. QED  BY <4>2, <4>3
    <3>. HIDE DEF ids
    <3>3. db'.history = {r \in db.history : r.id \notin ids} /\ db'.links = {r \in db.links : r.id \notin ids}
      BY <2>1, <3>1 DEF Sound, Tables
    <3>. QED  BY <3>2, <3>3 DEF Rows, Private
  <2>4. CASE Restart
    <3>1. Sound(db')
      BY <1>1, NextKeepsHistory DEF HistoryKept
    <3>. QED  BY <2>4, <3>1, StartedClosed DEF Restart
  <2>5. CASE HistoryAnswered \/ LinksAnswered \/ selectGlobalHistoryManagementDate \/ CloseDialog \/ UNCHANGED vars
    BY <2>2, <2>5 DEF HistoryAnswered, LinksAnswered, selectGlobalHistoryManagementDate, CloseDialog, vars
  <2>6. CASE Console
    <3>1. db'.history = db.history /\ db'.links = db.links
      BY <2>1, <2>6 DEF Console, Sound, Tables
    <3>. QED  BY <2>2, <3>1
  <2>7. CASE \/ openGlobalHistory \/ RefreshTimer \/ Refresh \/ loadMoreGlobalHistory
             \/ \E filter \in {"All", "Link"} : setGlobalHistoryFilter(filter)
             \/ \E days \in Day : setHistoryRetentionDays(days)
             \/ openLinkPlayback \/ deleteLinkPlaybackHistory
             \/ Play \/ recordGlobalPlaybackStarted \/ closePlayerToDetails \/ backToServices
             \/ deleteGlobalHistory \/ openGlobalHistoryManagement
             \/ TogglePrivacyMode \/ SetPrivacyCardPrivate \/ DeleteServiceCard
    BY <2>1, <2>7
    DEF openGlobalHistory, RefreshTimer, Refresh, loadMoreGlobalHistory, setGlobalHistoryFilter,
        setHistoryRetentionDays, openLinkPlayback, deleteLinkPlaybackHistory, Play,
        recordGlobalPlaybackStarted, closePlayerToDetails, backToServices, deleteGlobalHistory, OnPage,
        openGlobalHistoryManagement, TogglePrivacyMode, SetPrivacyCardPrivate, DeleteServiceCard
  <2>8. CASE Next
    BY <2>3, <2>4, <2>5, <2>6, <2>7, <2>8, Zenon DEF Next
  <2>. QED  BY <1>1, <2>5, <2>8
<1>2. HistoryKept /\ [Next]_vars
        => [ui.dialog /\ ui'.dialog /\ ~ui.privacy =>
              /\ \A r \in db.history : Private(db, r) => r \in db'.history
              /\ \A r \in db.links : r.private => r \in db'.links]_vars
  BY <1>1
<1>. QED  BY <1>2, SpecInv, PTL DEF Spec, OrdinaryKeepsPrivate
=============================================================================
