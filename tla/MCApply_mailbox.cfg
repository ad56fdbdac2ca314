SPECIFICATION Spec
CONSTANTS
  flag = flag  file = file  a = a  b = b
  NoMail = NoMail  NoItem = NoItem
  Item = {flag, file}
  Filing = {file}
  Bundle = {{flag}, {file}}
  Mail = {a, b}
  MaxUid = 1
  MaxModseq = 2
  MaxValidity = 2
SYMMETRY Mails
INVARIANTS TypeOK AppliesToWhatWasRead ConditionalIsHonest NoMailIsLost DoneOnce CacheKnowsOwnChanges
