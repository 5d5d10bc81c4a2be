\* Two pages that command at the same time.
SPECIFICATION FairSpec
CONSTANTS
  Clients = {a, b}
  Texts <- MCTexts
  MaxGiven = 2
  MaxChannel = 13
  StartChannel = 13

PROPERTIES EachInOrder LastObeyed LastMode
