CONSTANTS
  NoTask = NoTask  NoExec = NoExec  NoRefresher = NoRefresher  Nobody = Nobody
  Viewer = Viewer  Lifecycle = Lifecycle
SPECIFICATION Spec
PROPERTIES TasksServed TokenKept WhatIsStoppedEnds
CHECK_DEADLOCK FALSE
