SPECIFICATION WebSpec
CONSTANTS
  Writers = {w1, w2}
  ProcOf <- OwnProcess
  Keys = {"members", "regulars", "speed"}
  CommandKeys = {"members"}
  AdminKeys = {"speed"}
  ReadOnlyKeys = {}
  DefaultKeys = {"speed"}
  NewKeys = {"speed"}
  Exclusive = {"members", "regulars"}
  Clients = {c1}
  Users = {u1}
  Links = {l1, l2}
  Nonces = {n1, n2}
  Sids = {s1}
  Interactions = {i1}
  Handlers = {h1, h2}
  MaxGrants = 2
  MaxNonces = 2
  GrantLife = 2
  NonceLife = 1
  IdleLife = 2
  FullLife = 2
  RefreshAge = 1
  InteractionLife = 0
  IssueGap = 1
  MaxTime = 2
  MaxEpoch = 1
  None = None
  Servers = {x1, x2}
  Actors = {a1}
  Requests = {q1, q2}
  RequestKeys = {k1}
  Batches = {b1}
  Tokens = {t1}
  BatchWidth = 1
  MaxRev <- OneChanges
  Nil = Nil
  UploadIds = {"p", "q", "r"}
  Uploaders = {"a", "b"}
  FileKinds = {"save", "mod-list"}
  Quota = 2
  UploadLife = 0
  MaxMinute = 1
INVARIANTS
  WebTypeOK
  
  
  LinksSound
  ConfirmedAsShown
  BatchTruth
  UploadsKept

  
CHECK_DEADLOCK FALSE
